---- MODULE Spec2Model ----
(***************************************************************************)
(* A model of the event store of tt-local (tt_local/db.py): the events and *)
(* streams tables, event ingestion, stream inference                       *)
(* (EventStore.run_stream_inference) and time attribution                  *)
(* (EventStore.calculate_time with its helper passes).                     *)
(*                                                                         *)
(* Representation.                                                         *)
(*  - A stored timestamp is a string "YYYY-MM-DDTHH:MM:SSZ" (the form every *)
(*    test and the strftime calls of db.py use).  It is modelled by its    *)
(*    count of whole seconds, so that the order of the strings is the      *)
(*    order of the numbers.  A datetime (the value _parse_timestamp        *)
(*    returns) and every *_ms quantity is counted in ticks; MsPerSec ticks *)
(*    make one second.  strftime("...%SZ") drops the part below a second.  *)
(*  - A stream id (a uuid4 string) is modelled by the number of the row in *)
(*    the streams table; NoStream is SQL NULL / Python None.               *)
(*  - A cwd is the sequence of its characters; NoCwd is NULL.              *)
(*  - The events table is kept in the order of idx_events_timestamp, that  *)
(*    is by (timestamp, rowid): "ORDER BY timestamp ASC" returns rows of   *)
(*    one timestamp in the order they were inserted.                       *)
(***************************************************************************)
EXTENDS Integers, Sequences, FiniteSets, TLC

VARIABLES
    events,     \* the events table, in (timestamp, rowid) order
    streams,    \* the streams table, in creation order
    tags,       \* the stream_tags table: a set of <<stream_id, tag>> rows
    op,         \* name of the last EventStore method called
    arg,        \* the arguments of the last inference or query (else <<>>)
    ret         \* what the last import, inference or query returned (else NULL)

vars == <<events, streams, tags, op, arg, ret>>

----------------------------------------------------------------------------
(* Bounds of the model *)

MaxEvents == 3      \* rows in the events table
MaxTime == 2        \* latest second an event carries in the inference machine
MaxStreams == 3     \* rows in the streams table
MaxGapMs == 3       \* largest gap_threshold_ms, in ticks
MaxAttrEvents == 3  \* rows in the events table of the attribution machine
MaxAttrTime == 2    \* latest second an event or a query start carries there
MaxParamMs == 3     \* largest attention_window_ms and session_timeout_ms, in ticks
MaxSessionTimeoutMs == 4  \* largest session_timeout_ms of the sessions machine
MaxIdLen == 2       \* characters of a stream id in the lookup machine
MaxPrefixStreams == 2  \* rows in the streams table of the lookup machine
MaxPrefixLen == 2   \* characters of the prefix that is looked up
MaxToolTime == 3    \* latest second an event or a query start carries in the tool-use machine
MaxLookbackMs == 6  \* attention_window_ms of the tool-use and focus-restoration machines, in ticks
MaxRestoreEvents == 4  \* rows in the events table of the focus-restoration machine

(* Program constants, scaled to ticks *)

MsPerSec == 2               \* 1000 ms: the resolution strftime("%S") keeps
SeedAttentionWindowMs == 2  \* the literal 120_000 of _seed_initial_state

NULL == "NULL"              \* None in a string column
NoStream == 0               \* None in events.stream_id
NoCwd == <<"NULL">>         \* None in events.cwd

----------------------------------------------------------------------------
(* Timestamps *)

\* _parse_timestamp: the datetime of a stored timestamp string
ParseTimestamp(ts) == ts * MsPerSec

\* dt.strftime("%Y-%m-%dT%H:%M:%SZ"): the part below one second is dropped
FormatTimestamp(dt) == dt \div MsPerSec

Range(s) == {s[i] : i \in 1..Len(s)}

----------------------------------------------------------------------------
(* Ingestion *)

\* RawEvent.compute_id: a digest of the content fields, modelled by the
\* fields themselves (no two contents share a digest)
compute_id(e) == <<e.type, e.timestamp, e.data, e.cwd, e.session_id>>

Ids(evs) == {evs[i].id : i \in 1..Len(evs)}

\* Position of a new row in (timestamp, rowid) order: it has the largest
\* rowid, so it follows every row whose timestamp is not later
InsertRow(evs, row) ==
    LET before == SelectSeq(evs, LAMBDA r : r.timestamp <= row.timestamp)
        after == SelectSeq(evs, LAMBDA r : r.timestamp > row.timestamp)
    IN  before \o <<row>> \o after

\* INSERT OR REPLACE INTO events: a row whose id exists is deleted first
InsertOrReplace(evs, row) ==
    InsertRow(SelectSeq(evs, LAMBDA r : r.id # row.id), row)

\* INSERT OR IGNORE INTO events: a row whose id exists is left as it is
InsertOrIgnore(evs, row) ==
    IF row.id \in Ids(evs) THEN evs ELSE InsertRow(evs, row)

\* EventStore.insert_event(event, stream_id=..., assignment_source=...)
insert_event(e, stream_id, assignment_source) ==
    /\ Len(events) < MaxEvents
    \* FOREIGN KEY (stream_id) REFERENCES streams(id)
    /\ stream_id = NoStream \/ stream_id \in 1..Len(streams)
    /\ LET row == [id |-> compute_id(e), timestamp |-> e.timestamp,
                   type |-> e.type, data |-> e.data, cwd |-> e.cwd,
                   session_id |-> e.session_id, stream_id |-> stream_id,
                   assignment_source |-> assignment_source]
       IN  events' = InsertOrIgnore(events, row)
    \* the id returned is compute_id(e), the id of the row; it is not recorded
    /\ ret' = NULL
    /\ op' = "insert_event"
    /\ arg' = <<>>
    /\ UNCHANGED <<streams, tags>>

\* EventStore.insert_imported_event(event): id as given, no session_id,
\* no stream_id, assignment_source 'imported'
insert_imported_event(e) ==
    /\ Len(events) < MaxEvents
    /\ LET row == [id |-> e.id, timestamp |-> e.timestamp,
                   type |-> e.type, data |-> e.data, cwd |-> e.cwd,
                   session_id |-> NULL, stream_id |-> NoStream,
                   assignment_source |-> "imported"]
       IN  /\ events' = InsertOrIgnore(events, row)
           /\ ret' = (e.id \notin Ids(events))
    /\ op' = "insert_imported_event"
    /\ arg' = <<>>
    /\ UNCHANGED <<streams, tags>>

\* EventStore.create_stream(name=..., commit=True)
create_stream(name) ==
    /\ Len(streams) < MaxStreams
    /\ streams' = Append(streams, [id |-> Len(streams) + 1, name |-> name])
    /\ ret' = Len(streams) + 1
    /\ op' = "create_stream"
    /\ arg' = <<>>
    /\ UNCHANGED <<events, tags>>

----------------------------------------------------------------------------
(* Stream inference *)

\* get_unassigned_events without "assignment_source != 'user'"
get_unassigned_events_any_source(evs) ==
    SelectSeq(evs, LAMBDA r : r.stream_id = NoStream)

\* get_unassigned_events without "stream_id IS NULL"
get_unassigned_events_any_stream(evs) ==
    SelectSeq(evs, LAMBDA r : r.assignment_source # "user")

\* EventStore.get_unassigned_events
get_unassigned_events(evs) ==
    SelectSeq(evs, LAMBDA r : r.stream_id = NoStream /\ r.assignment_source # "user")

\* The UPDATE without "assignment_source = 'inferred'"
AssignRowsKeepingSource(evs, event_ids, stream_id) ==
    [i \in 1..Len(evs) |->
        IF evs[i].id \in event_ids
        THEN [evs[i] EXCEPT !.stream_id = stream_id]
        ELSE evs[i]]

\* The UPDATE of assign_events_to_stream, on a table value
AssignRows(evs, event_ids, stream_id) ==
    [i \in 1..Len(evs) |->
        IF evs[i].id \in event_ids
        THEN [evs[i] EXCEPT !.stream_id = stream_id, !.assignment_source = "inferred"]
        ELSE evs[i]]

\* EventStore.assign_events_to_stream(event_ids, stream_id)
assign_events_to_stream(event_ids, stream_id) ==
    \* FOREIGN KEY (stream_id) REFERENCES streams(id)
    /\ stream_id \in 1..Len(streams)
    /\ events' = AssignRows(events, event_ids, stream_id)
    /\ op' = "assign_events_to_stream"
    /\ arg' = <<>>
    /\ ret' = NULL
    /\ UNCHANGED <<streams, tags>>

\* cwd.rstrip("/")
RECURSIVE RStripSlash(_)
RStripSlash(s) ==
    IF s # <<>> /\ s[Len(s)] = "/" THEN RStripSlash(SubSeq(s, 1, Len(s) - 1)) ELSE s

\* cwd = event["cwd"] or ""; normalized_cwd = cwd.rstrip("/") or cwd
NormalizeCwd(c) ==
    LET cwd == IF c = NoCwd THEN <<>> ELSE c
    IN  IF RStripSlash(cwd) # <<>> THEN RStripSlash(cwd) ELSE cwd

\* normalized_cwd.rsplit("/", 1)[-1]: what follows the last "/"
RECURSIVE RSplitLast(_)
RSplitLast(s) ==
    IF s = <<>> \/ s[Len(s)] = "/" THEN <<>>
    ELSE Append(RSplitLast(SubSeq(s, 1, Len(s) - 1)), s[Len(s)])

\* stream_name = basename or normalized_cwd or "Uncategorized"
StreamName(normalized_cwd) ==
    IF RSplitLast(normalized_cwd) # <<>> THEN RSplitLast(normalized_cwd)
    ELSE IF normalized_cwd # <<>> THEN normalized_cwd
    ELSE <<"Uncategorized">>

\* The keys of cwd_groups, in the order the dict first sees them
RECURSIVE CwdGroupKeys(_, _)
CwdGroupKeys(evs, keys) ==
    IF evs = <<>> THEN keys
    ELSE LET k == NormalizeCwd(Head(evs).cwd)
         IN  CwdGroupKeys(Tail(evs),
                          IF k \in Range(keys) THEN keys ELSE Append(keys, k))

\* cwd_groups[normalized_cwd]
CwdGroup(evs, normalized_cwd) ==
    SelectSeq(evs, LAMBDA r : NormalizeCwd(r.cwd) = normalized_cwd)

\* The temporal split with "gap_ms >= gap_threshold_ms" for the test of the gap
RECURSIVE SplitClustersAtThreshold(_, _, _, _)
SplitClustersAtThreshold(group_events, clusters, current_cluster, gap_threshold_ms) ==
    IF group_events = <<>>
    THEN IF current_cluster # <<>> THEN Append(clusters, current_cluster) ELSE clusters
    ELSE LET event == Head(group_events)
             rest == Tail(group_events)
         IN  IF current_cluster = <<>>
             THEN SplitClustersAtThreshold(rest, clusters, <<event>>, gap_threshold_ms)
             ELSE LET prev_ts == ParseTimestamp(current_cluster[Len(current_cluster)].timestamp)
                      curr_ts == ParseTimestamp(event.timestamp)
                      gap_ms == curr_ts - prev_ts
                  IN  IF gap_ms >= gap_threshold_ms
                      THEN SplitClustersAtThreshold(rest, Append(clusters, current_cluster),
                                                    <<event>>, gap_threshold_ms)
                      ELSE SplitClustersAtThreshold(rest, clusters,
                                                    Append(current_cluster, event),
                                                    gap_threshold_ms)

\* The temporal split of one group: the loop over group_events
RECURSIVE SplitClusters(_, _, _, _)
SplitClusters(group_events, clusters, current_cluster, gap_threshold_ms) ==
    IF group_events = <<>>
    THEN IF current_cluster # <<>> THEN Append(clusters, current_cluster) ELSE clusters
    ELSE LET event == Head(group_events)
             rest == Tail(group_events)
         IN  IF current_cluster = <<>>
             THEN SplitClusters(rest, clusters, <<event>>, gap_threshold_ms)
             ELSE LET prev_ts == ParseTimestamp(current_cluster[Len(current_cluster)].timestamp)
                      curr_ts == ParseTimestamp(event.timestamp)
                      gap_ms == curr_ts - prev_ts
                  IN  IF gap_ms > gap_threshold_ms
                      THEN SplitClusters(rest, Append(clusters, current_cluster),
                                         <<event>>, gap_threshold_ms)
                      ELSE SplitClusters(rest, clusters,
                                         Append(current_cluster, event), gap_threshold_ms)

\* Every cluster of every group, in the order the streams are created
RECURSIVE AllClusters(_, _, _)
AllClusters(keys, unassigned, gap_threshold_ms) ==
    IF keys = <<>> THEN <<>>
    ELSE LET cs == SplitClusters(CwdGroup(unassigned, Head(keys)), <<>>, <<>>,
                                 gap_threshold_ms)
         IN  [i \in 1..Len(cs) |-> [cwd |-> Head(keys), cluster |-> cs[i]]]
             \o AllClusters(Tail(keys), unassigned, gap_threshold_ms)

\* create_stream(commit=False) and assign_events_to_stream for each cluster
RECURSIVE ApplyClusters(_, _, _)
ApplyClusters(cs, evs, strs) ==
    IF cs = <<>> THEN [events |-> evs, streams |-> strs]
    ELSE LET stream_id == Len(strs) + 1
             event_ids == {Head(cs).cluster[i].id : i \in 1..Len(Head(cs).cluster)}
         IN  ApplyClusters(Tail(cs),
                           AssignRows(evs, event_ids, stream_id),
                           Append(strs, [id |-> stream_id,
                                         name |-> StreamName(Head(cs).cwd)]))

\* The clusters run_stream_inference forms on a table value
InferredClusters(evs, gap_threshold_ms) ==
    AllClusters(CwdGroupKeys(get_unassigned_events(evs), <<>>),
                get_unassigned_events(evs), gap_threshold_ms)

\* EventStore.run_stream_inference(gap_threshold_ms)
run_stream_inference(gap_threshold_ms) ==
    LET unassigned == get_unassigned_events(events)
        cs == InferredClusters(events, gap_threshold_ms)
        after == ApplyClusters(cs, events, streams)
    IN  /\ Len(streams) + Len(cs) <= MaxStreams
        /\ IF unassigned = <<>>
           THEN /\ ret' = 0
                /\ UNCHANGED <<events, streams, tags>>
           ELSE /\ events' = after.events
                /\ streams' = after.streams
                /\ ret' = Len(unassigned)
                /\ UNCHANGED tags
        /\ op' = "run_stream_inference"
        /\ arg' = <<gap_threshold_ms>>

\* The connection inside a transaction: the tables it sees (events, streams)
\* and the tables of the last commit (committed), to which a rollback returns.
\* create_stream(name=..., commit=...) inside a transaction
TxCreateStream(tx, name, commit) ==
    LET strs == Append(tx.streams, [id |-> Len(tx.streams) + 1, name |-> name])
    IN  [tx EXCEPT !.streams = strs,
                   !.committed = IF commit THEN [events |-> tx.events, streams |-> strs]
                                 ELSE @]

\* assign_events_to_stream inside a transaction: it does not commit
TxAssign(tx, event_ids, stream_id) ==
    [tx EXCEPT !.events = AssignRows(@, event_ids, stream_id)]

\* create_stream called with its default, commit=True
create_stream_committing(tx, name) == TxCreateStream(tx, name, TRUE)

\* self.create_stream(name=stream_name, commit=False) of run_stream_inference
create_stream_no_commit(tx, name) == TxCreateStream(tx, name, FALSE)

\* The first statements (create_stream, assign_events_to_stream, create_stream,
\* ...) of the loop over the clusters, as many as ran before one raised
RECURSIVE StatementsRun(_, _, _)
StatementsRun(cs, tx, statements) ==
    IF statements = 0 \/ cs = <<>> THEN tx
    ELSE LET created == create_stream_no_commit(tx, StreamName(Head(cs).cwd))
             event_ids == {Head(cs).cluster[i].id : i \in 1..Len(Head(cs).cluster)}
         IN  IF statements = 1 THEN created
             ELSE StatementsRun(Tail(cs),
                                TxAssign(created, event_ids, Len(created.streams)),
                                statements - 2)

\* EventStore.run_stream_inference(gap_threshold_ms) when the statement
\* numbered failed_step of the loop raises a storage error: "with self._conn"
\* rolls the transaction back and the error reaches the caller.  Every other
\* method of this machine commits, so the call starts on committed tables.
run_stream_inference_fails(gap_threshold_ms, failed_step) ==
    LET unassigned == get_unassigned_events(events)
        cs == InferredClusters(events, gap_threshold_ms)
        tx == StatementsRun(cs,
                            [events |-> events, streams |-> streams,
                             committed |-> [events |-> events, streams |-> streams]],
                            failed_step - 1)
    IN  /\ unassigned # <<>>
        /\ failed_step \in 1..(2 * Len(cs))
        /\ Len(streams) + Len(cs) <= MaxStreams
        /\ events' = tx.committed.events
        /\ streams' = tx.committed.streams
        /\ op' = "run_stream_inference_failed"
        /\ arg' = <<gap_threshold_ms, failed_step>>
        /\ ret' = NULL
        /\ UNCHANGED tags

----------------------------------------------------------------------------
(* Time attribution: helpers *)

\* Event types that indicate user activity (reset idle timer)
ACTIVITY_EVENT_TYPES == {"user_message", "tmux_pane_focus", "tmux_scroll"}

\* Event types that set focus
FOCUS_EVENT_TYPES == {"user_message", "tmux_pane_focus", "window_focus"}

\* d[k] = v on a Python dict
DictSet(d, k, v) == [x \in DOMAIN d \cup {k} |-> IF x = k THEN v ELSE d[x]]

\* d.pop(k, None) on a Python dict
DictPop(d, k) == [x \in DOMAIN d \ {k} |-> d[x]]

EmptyDict == [x \in {} |-> 0]

\* A dict whose order of keys is walked (session_timeout_at): the sequence of
\* its <<key, value>> items in insertion order
OdHas(d, k) == \E i \in 1..Len(d) : d[i][1] = k

\* d[k] = v: a key the dict has keeps its place, a new key goes last
OdSet(d, k, v) ==
    IF OdHas(d, k) THEN [i \in 1..Len(d) |-> IF d[i][1] = k THEN <<k, v>> ELSE d[i]]
    ELSE Append(d, <<k, v>>)

\* d.pop(k, None), del d[k]
OdPop(d, k) == SelectSeq(d, LAMBDA item : item[1] # k)

\* The session ids of the model
SessionIds == {"A", "B"}

\* The orders in which a set of session ids can be walked: the order of a
\* Python set of str follows the hashes of the process, which differ from one
\* process to the next
SessionOrders == {<<"A", "B">>, <<"B", "A">>}

\* for sid in a_set, in a process whose hashes give the order
SetOrder(order, a_set) == SelectSeq(order, LAMBDA sid : sid \in a_set)

\* max(evs, key=lambda e: e["timestamp"]): the first row of the greatest timestamp
MaxByTimestamp(evs) ==
    evs[CHOOSE i \in 1..Len(evs) :
            \A j \in 1..Len(evs) :
                /\ evs[j].timestamp <= evs[i].timestamp
                /\ j < i => evs[j].timestamp < evs[i].timestamp]

\* Order of two sort keys <<timestamp, flag>> (Python tuple comparison)
KeyBefore(a, b) == a[1] < b[1] \/ (a[1] = b[1] /\ a[2] < b[2])

\* list.sort / sorted: the stable sort of evs by keys (keys[i] is the key of
\* evs[i])
RECURSIVE StableSort(_, _)
StableSort(evs, keys) ==
    IF evs = <<>> THEN <<>>
    ELSE LET n == Len(evs)
             sorted == StableSort(SubSeq(evs, 1, n - 1), SubSeq(keys, 1, n - 1))
             \* elements of the prefix that stay in front of the last element
             front == {i \in 1..(n - 1) : ~KeyBefore(keys[n], keys[i])}
         IN  SubSeq(sorted, 1, Cardinality(front)) \o <<evs[n]>>
             \o SubSeq(sorted, Cardinality(front) + 1, n - 1)

\* key=lambda e: e["timestamp"]
TimestampKey(evs) == [i \in 1..Len(evs) |-> <<evs[i].timestamp, 0>>]

\* A sort key that puts user_message first among equal timestamps
UserMessageFirstKey(evs) ==
    [i \in 1..Len(evs) |->
        <<evs[i].timestamp, IF evs[i].type = "user_message" THEN 0 ELSE 1>>]

\* key=lambda e: (e["timestamp"], e["type"] == "user_message")
UserMessageLastKey(evs) ==
    [i \in 1..Len(evs) |->
        <<evs[i].timestamp, IF evs[i].type = "user_message" THEN 1 ELSE 0>>]

\* A synthetic event: a dict with a type, a timestamp and perhaps a session_id
Synthetic(type, timestamp, session_id) ==
    [id |-> <<>>, timestamp |-> timestamp, type |-> type, data |-> NULL,
     cwd |-> NoCwd, session_id |-> session_id, stream_id |-> NoStream,
     assignment_source |-> NULL]

\* EventStore.get_events(start=..., end=...): timestamp >= start AND timestamp < end,
\* compared as strings, ORDER BY timestamp ASC
get_events(evs, start, end) ==
    SelectSeq(evs, LAMBDA r : r.timestamp >= start /\ r.timestamp < end)

\* A map that takes the stream_id of the latest row of each session
_load_session_stream_map_latest(evs) ==
    LET mapped == SelectSeq(evs, LAMBDA r : r.session_id # NULL /\ r.stream_id # NoStream)
        sids == {mapped[i].session_id : i \in 1..Len(mapped)}
        rows(sid) == SelectSeq(mapped, LAMBDA r : r.session_id = sid)
    IN  [sid \in sids |-> rows(sid)[Len(rows(sid))].stream_id]

\* EventStore._load_session_stream_map: the stream_id of the rows of a session
\* that carry a stream_id and the least timestamp of such rows; rows of one
\* session come in rowid order and the dict keeps the last of them
_load_session_stream_map(evs) ==
    LET mapped == SelectSeq(evs, LAMBDA r : r.session_id # NULL /\ r.stream_id # NoStream)
        sids == {mapped[i].session_id : i \in 1..Len(mapped)}
        rows(sid) == SelectSeq(mapped, LAMBDA r : r.session_id = sid)
        min_ts(sid) == rows(sid)[1].timestamp
        joined(sid) == SelectSeq(rows(sid), LAMBDA r : r.timestamp = min_ts(sid))
    IN  [sid \in sids |-> joined(sid)[Len(joined(sid))].stream_id]

\* session_stream_map.get(sid)
MapGet(session_stream_map, sid) ==
    IF sid \in DOMAIN session_stream_map THEN session_stream_map[sid] ELSE NoStream

----------------------------------------------------------------------------
(* Time attribution: seeding *)

\* The session loop of _seed_initial_state over sorted(pre_window_events)
RECURSIVE SeedSessions(_, _)
SeedSessions(evs, acc) ==
    IF evs = <<>> THEN acc
    ELSE LET event == Head(evs)
             sid == event.session_id
             ts == ParseTimestamp(event.timestamp)
         IN  SeedSessions(Tail(evs),
                 IF event.type = "agent_session"
                 THEN IF sid = NULL THEN acc
                      ELSE IF event.data = "started"
                      THEN [acc EXCEPT !.session_starts = @ \cup {sid},
                                       !.session_last_event = DictSet(@, sid, ts)]
                      ELSE IF event.data = "ended"
                      THEN [acc EXCEPT !.session_ends = @ \cup {sid},
                                       !.session_last_event = DictPop(@, sid)]
                      ELSE acc
                 ELSE IF event.type = "agent_tool_use"
                 THEN IF sid # NULL /\ sid \in acc.session_starts
                      THEN [acc EXCEPT !.session_last_event = DictSet(@, sid, ts)]
                      ELSE acc
                 ELSE acc)

\* _seed_initial_state(pre_window_events, start_dt, session_timeout_ms)
_seed_initial_state(pre_window_events, start_dt, session_timeout_ms) ==
    LET focus_events == SelectSeq(pre_window_events,
                                  LAMBDA e : e.type \in FOCUS_EVENT_TYPES)
        latest_focus == MaxByTimestamp(focus_events)
        current_stream ==
            IF focus_events = <<>> THEN NoStream
            ELSE IF latest_focus.type = "window_focus" THEN NoStream
            ELSE latest_focus.stream_id
        activity_events == SelectSeq(pre_window_events,
                                     LAMBDA e : e.type \in ACTIVITY_EVENT_TYPES)
        last_activity ==
            IF activity_events = <<>> THEN start_dt
            ELSE ParseTimestamp(MaxByTimestamp(activity_events).timestamp)
        time_since_activity == start_dt - last_activity
        is_idle ==
            IF activity_events = <<>> THEN TRUE
            ELSE time_since_activity > SeedAttentionWindowMs
        afk_events == SelectSeq(pre_window_events, LAMBDA e : e.type = "afk_change")
        is_afk ==
            IF afk_events = <<>> THEN FALSE
            ELSE MaxByTimestamp(afk_events).data = "idle"
        seeded == SeedSessions(
                      StableSort(pre_window_events, TimestampKey(pre_window_events)),
                      [session_starts |-> {}, session_ends |-> {},
                       session_last_event |-> EmptyDict])
        active_sessions ==
            {sid \in seeded.session_starts :
                /\ sid \notin seeded.session_ends
                /\ sid \in DOMAIN seeded.session_last_event
                /\ start_dt - seeded.session_last_event[sid] <= session_timeout_ms}
    IN  [current_stream |-> current_stream,
         active_sessions |-> active_sessions,
         session_last_event |-> seeded.session_last_event,
         last_activity |-> last_activity,
         is_afk |-> is_afk,
         is_idle |-> is_idle,
         previous_stream |-> NoStream]

----------------------------------------------------------------------------
(* Time attribution: synthetic events *)

\* The loop of _insert_idle_boundaries; pending_idle_at is <<>> (None) or <<dt>>
RECURSIVE IdleLoop(_, _, _, _, _)
IdleLoop(evs, pending_idle_at, result, attention_window_ms, end_dt) ==
    IF evs = <<>>
    THEN IF pending_idle_at # <<>> /\ pending_idle_at[1] <= end_dt
         THEN Append(result, Synthetic("_idle_start",
                                       FormatTimestamp(pending_idle_at[1]), NULL))
         ELSE result
    ELSE LET event == Head(evs)
             event_ts == ParseTimestamp(event.timestamp)
             fire == pending_idle_at # <<>> /\ event_ts >= pending_idle_at[1]
             result1 == IF fire
                        THEN Append(result, Synthetic("_idle_start",
                                        FormatTimestamp(pending_idle_at[1]), NULL))
                        ELSE result
             pending1 == IF fire THEN <<>> ELSE pending_idle_at
             pending2 == IF event.type \in ACTIVITY_EVENT_TYPES
                         THEN <<event_ts + attention_window_ms>>
                         ELSE pending1
         IN  IdleLoop(Tail(evs), pending2, Append(result1, event),
                      attention_window_ms, end_dt)

\* _insert_idle_boundaries(events, state, attention_window_ms, end_dt)
_insert_idle_boundaries(evs, state, attention_window_ms, end_dt) ==
    IdleLoop(evs,
             IF ~state.is_idle THEN <<state.last_activity + attention_window_ms>>
             ELSE <<>>,
             <<>>, attention_window_ms, end_dt)

\* The walk over session_timeout_at left after the first timeout
ExpiredTimeoutsFirstOnly(session_timeout_at, limit) ==
    LET expired == SelectSeq(session_timeout_at, LAMBDA item : item[2] <= limit)
    IN  [i \in 1..(IF expired = <<>> THEN 0 ELSE 1) |->
            Synthetic("_session_timeout", FormatTimestamp(expired[i][2]),
                      expired[i][1])]

\* The _session_timeout events of the sessions of session_timeout_at whose
\* timeout is at or before limit, in the order of the dict
ExpiredTimeouts(session_timeout_at, limit) ==
    LET expired == SelectSeq(session_timeout_at, LAMBDA item : item[2] <= limit)
    IN  [i \in 1..Len(expired) |->
            Synthetic("_session_timeout", FormatTimestamp(expired[i][2]),
                      expired[i][1])]

\* The loop of _insert_session_timeouts
RECURSIVE TimeoutLoop(_, _, _, _, _)
TimeoutLoop(evs, session_timeout_at, result, session_timeout_ms, end_dt) ==
    IF evs = <<>>
    THEN result \o ExpiredTimeouts(session_timeout_at, end_dt)
    ELSE LET event == Head(evs)
             event_ts == ParseTimestamp(event.timestamp)
             sid == event.session_id
             fired == ExpiredTimeouts(session_timeout_at, event_ts)
             at1 == SelectSeq(session_timeout_at,
                              LAMBDA item : ~(event_ts >= item[2]))
             at2 == IF event.type = "agent_session"
                    THEN IF sid = NULL THEN at1
                         ELSE IF event.data = "started"
                         THEN OdSet(at1, sid, event_ts + session_timeout_ms)
                         ELSE IF event.data = "ended" THEN OdPop(at1, sid)
                         ELSE at1
                    ELSE IF event.type = "agent_tool_use"
                    THEN IF sid # NULL /\ OdHas(at1, sid)
                         THEN OdSet(at1, sid, event_ts + session_timeout_ms)
                         ELSE at1
                    ELSE at1
         IN  TimeoutLoop(Tail(evs), at2, Append(result \o fired, event),
                         session_timeout_ms, end_dt)

\* _insert_session_timeouts(events, state, session_timeout_ms, end_dt); order
\* is the order in which the process walks state["active_sessions"]
_insert_session_timeouts(evs, state, session_timeout_ms, end_dt, order) ==
    LET tracked == SelectSeq(SetOrder(order, state.active_sessions),
                       LAMBDA sid : sid \in DOMAIN state.session_last_event)
    IN  TimeoutLoop(evs,
                    [i \in 1..Len(tracked) |->
                        <<tracked[i],
                          state.session_last_event[tracked[i]] + session_timeout_ms>>],
                    <<>>, session_timeout_ms, end_dt)

----------------------------------------------------------------------------
(* Time attribution: replay *)

\* _prune_stale_sessions(state, current_ts, session_timeout_ms)
_prune_stale_sessions(state, current_ts, session_timeout_ms) ==
    LET stale == {sid \in state.active_sessions :
                     /\ sid \in DOMAIN state.session_last_event
                     /\ current_ts - state.session_last_event[sid] > session_timeout_ms}
    IN  [state EXCEPT
            !.active_sessions = @ \ stale,
            !.session_last_event = [x \in DOMAIN @ \ stale |-> @[x]]]

\* Activity that also counts the return from AFK
ApplyActivityOnAfkReturn(state, event) ==
    IF \/ event.type \in ACTIVITY_EVENT_TYPES
       \/ event.type = "afk_change" /\ event.data = "active"
    THEN [state EXCEPT !.is_idle = FALSE,
                       !.last_activity = ParseTimestamp(event.timestamp)]
    ELSE state

\* Activity that also counts a focus on a window
ApplyActivityOnWindowFocus(state, event) ==
    IF event.type \in ACTIVITY_EVENT_TYPES \cup {"window_focus"}
    THEN [state EXCEPT !.is_idle = FALSE,
                       !.last_activity = ParseTimestamp(event.timestamp)]
    ELSE state

\* The first half of _apply_transition: activity resets idle
ApplyActivity(state, event) ==
    IF event.type \in ACTIVITY_EVENT_TYPES
    THEN [state EXCEPT !.is_idle = FALSE,
                       !.last_activity = ParseTimestamp(event.timestamp)]
    ELSE state

\* _apply_transition(state, event, session_stream_map)
_apply_transition(state, event, session_stream_map) ==
    LET event_ts == ParseTimestamp(event.timestamp)
        sid == event.session_id
        st == ApplyActivity(state, event)
    IN  IF event.type = "_idle_start" THEN [state EXCEPT !.is_idle = TRUE]
        ELSE IF event.type = "_session_timeout"
        THEN IF sid # NULL
             THEN [state EXCEPT !.active_sessions = @ \ {sid},
                                !.session_last_event = DictPop(@, sid)]
             ELSE state
        ELSE IF event.type = "tmux_pane_focus"
        THEN [st EXCEPT !.previous_stream = st.current_stream,
                        !.current_stream = event.stream_id]
        ELSE IF event.type = "window_focus"
        THEN IF event.data = "Terminal"
             THEN IF st.previous_stream # NoStream
                  THEN [st EXCEPT !.current_stream = st.previous_stream]
                  ELSE st
             ELSE [st EXCEPT !.previous_stream = st.current_stream,
                             !.current_stream = NoStream]
        ELSE IF event.type = "tmux_scroll" THEN st
        ELSE IF event.type = "user_message"
        THEN IF sid # NULL
             THEN LET stream == IF MapGet(session_stream_map, sid) # NoStream
                                THEN MapGet(session_stream_map, sid)
                                ELSE event.stream_id
                  IN  IF stream # NoStream
                      THEN [st EXCEPT !.previous_stream = st.current_stream,
                                      !.current_stream = stream]
                      ELSE st
             ELSE st
        ELSE IF event.type = "agent_session"
        THEN IF sid = NULL THEN st
             ELSE IF event.data = "started"
             THEN [st EXCEPT !.active_sessions = @ \cup {sid},
                             !.session_last_event = DictSet(@, sid, event_ts)]
             ELSE IF event.data = "ended"
             THEN [st EXCEPT !.active_sessions = @ \ {sid},
                             !.session_last_event = DictPop(@, sid)]
             ELSE st
        ELSE IF event.type = "agent_tool_use"
        THEN IF sid # NULL /\ sid \in st.active_sessions
             THEN [st EXCEPT !.session_last_event = DictSet(@, sid, event_ts)]
             ELSE st
        ELSE IF event.type = "afk_change"
        THEN IF event.data = "idle" THEN [st EXCEPT !.is_afk = TRUE]
             ELSE [st EXCEPT !.is_afk = FALSE]
        ELSE st

\* results[stream][field] += ms on the defaultdict
AddMs(results, stream, field, ms) ==
    LET cur == IF stream \in DOMAIN results THEN results[stream]
               ELSE [direct_ms |-> 0, delegated_ms |-> 0]
    IN  DictSet(results, stream, [cur EXCEPT ![field] = @ + ms])

\* for sid in state["active_sessions"]: results[stream]["delegated_ms"] += ms
RECURSIVE AddDelegated(_, _, _, _, _)
AddDelegated(sids, state, results, ms, session_stream_map) ==
    IF sids = <<>> THEN results
    ELSE LET sid == Head(sids)
             stream == MapGet(session_stream_map, sid)
         IN  AddDelegated(Tail(sids), state,
                 IF sid \in state.active_sessions /\ stream # NoStream
                 THEN AddMs(results, stream, "delegated_ms", ms)
                 ELSE results,
                 ms, session_stream_map)

\* The attribution without the test of current_stream
AttributeToNull(state, results, interval_ms, session_stream_map, order) ==
    LET direct ==
            IF ~state.is_afk /\ ~state.is_idle
            THEN AddMs(results, state.current_stream, "direct_ms", interval_ms)
            ELSE results
    IN  AddDelegated(SetOrder(order, state.active_sessions), state, direct,
                     interval_ms, session_stream_map)

\* The attribution without the test of is_afk
AttributeIgnoringAfk(state, results, interval_ms, session_stream_map, order) ==
    LET direct ==
            IF ~state.is_idle /\ state.current_stream # NoStream
            THEN AddMs(results, state.current_stream, "direct_ms", interval_ms)
            ELSE results
    IN  AddDelegated(SetOrder(order, state.active_sessions), state, direct,
                     interval_ms, session_stream_map)

\* The attribution of one interval: direct time to the focused stream,
\* delegated time to the stream of every active session
Attribute(state, results, interval_ms, session_stream_map, order) ==
    LET direct ==
            IF ~state.is_afk /\ ~state.is_idle /\ state.current_stream # NoStream
            THEN AddMs(results, state.current_stream, "direct_ms", interval_ms)
            ELSE results
    IN  AddDelegated(SetOrder(order, state.active_sessions), state, direct,
                     interval_ms, session_stream_map)

\* The replay loop without "last_ts = event_ts": every interval is measured
\* from the start of the window
RECURSIVE ReplayStaleLastTs(_, _, _, _, _, _, _)
ReplayStaleLastTs(evs, state, results, last_ts, session_timeout_ms, session_stream_map, order) ==
    IF evs = <<>> THEN [state |-> state, results |-> results, last_ts |-> last_ts]
    ELSE LET event == Head(evs)
             event_ts == ParseTimestamp(event.timestamp)
             interval_ms == event_ts - last_ts
             pruned == _prune_stale_sessions(state, last_ts, session_timeout_ms)
         IN  ReplayStaleLastTs(Tail(evs),
                    _apply_transition(pruned, event, session_stream_map),
                    Attribute(pruned, results, interval_ms, session_stream_map, order),
                    last_ts, session_timeout_ms, session_stream_map, order)

\* The single-pass loop of calculate_time over the sorted window_events
RECURSIVE Replay(_, _, _, _, _, _, _)
Replay(evs, state, results, last_ts, session_timeout_ms, session_stream_map, order) ==
    IF evs = <<>> THEN [state |-> state, results |-> results, last_ts |-> last_ts]
    ELSE LET event == Head(evs)
             event_ts == ParseTimestamp(event.timestamp)
             interval_ms == event_ts - last_ts
             pruned == _prune_stale_sessions(state, last_ts, session_timeout_ms)
         IN  Replay(Tail(evs),
                    _apply_transition(pruned, event, session_stream_map),
                    Attribute(pruned, results, interval_ms, session_stream_map, order),
                    event_ts, session_timeout_ms, session_stream_map, order)

\* The list calculate_time replays: window events with the synthetic events,
\* sorted by timestamp with user_message last
SortedWindowEvents(evs, start, end, attention_window_ms, session_timeout_ms, order) ==
    LET start_dt == ParseTimestamp(start)
        end_dt == ParseTimestamp(end)
        lookback_ms == IF attention_window_ms >= session_timeout_ms
                       THEN attention_window_ms ELSE session_timeout_ms
        lookback_start == FormatTimestamp(start_dt - lookback_ms)
        fetched == get_events(evs, lookback_start, end)
        pre_window == SelectSeq(fetched,
                          LAMBDA e : ParseTimestamp(e.timestamp) < start_dt)
        window_events == SelectSeq(fetched,
                          LAMBDA e : /\ start_dt <= ParseTimestamp(e.timestamp)
                                     /\ ParseTimestamp(e.timestamp) <= end_dt)
        state == _seed_initial_state(pre_window, start_dt, session_timeout_ms)
        with_idle == _insert_idle_boundaries(window_events, state,
                                             attention_window_ms, end_dt)
        with_timeouts == _insert_session_timeouts(with_idle, state,
                                                  session_timeout_ms, end_dt, order)
    IN  [state |-> state,
         events |-> StableSort(with_timeouts, UserMessageLastKey(with_timeouts))]

\* EventStore.calculate_time(start, end, attention_window_ms=...,
\* session_timeout_ms=...) on a table value, in a process that walks sets of
\* session ids in the given order
CalculateTime(evs, start, end, attention_window_ms, session_timeout_ms, order) ==
    LET start_dt == ParseTimestamp(start)
        end_dt == ParseTimestamp(end)
        session_stream_map == _load_session_stream_map(evs)
        prepared == SortedWindowEvents(evs, start, end, attention_window_ms,
                                       session_timeout_ms, order)
        replayed == Replay(prepared.events, prepared.state, EmptyDict, start_dt,
                           session_timeout_ms, session_stream_map, order)
        final_interval_ms == end_dt - replayed.last_ts
    IN  IF final_interval_ms > 0
        THEN Attribute(_prune_stale_sessions(replayed.state, replayed.last_ts,
                                             session_timeout_ms),
                       replayed.results, final_interval_ms, session_stream_map,
                       order)
        ELSE replayed.results

\* The intervals the loop of calculate_time attributes, one for each replayed
\* event: the state after pruning, the interval, results before and after,
\* the event that ends the interval and the state after its transition
RECURSIVE ReplayIntervals(_, _, _, _, _, _, _)
ReplayIntervals(evs, state, results, last_ts, session_timeout_ms, session_stream_map, order) ==
    IF evs = <<>> THEN <<>>
    ELSE LET event == Head(evs)
             event_ts == ParseTimestamp(event.timestamp)
             interval_ms == event_ts - last_ts
             pruned == _prune_stale_sessions(state, last_ts, session_timeout_ms)
             after == Attribute(pruned, results, interval_ms, session_stream_map, order)
         IN  <<[state |-> pruned, interval_ms |-> interval_ms, from |-> last_ts,
                before |-> results, after |-> after, event |-> event,
                next |-> _apply_transition(pruned, event, session_stream_map)]>>
             \o ReplayIntervals(Tail(evs),
                                _apply_transition(pruned, event, session_stream_map),
                                after, event_ts, session_timeout_ms,
                                session_stream_map, order)

\* Every interval calculate_time attributes on a table value, the final
\* interval to end included
IntervalsOf(evs, start, end, attention_window_ms, session_timeout_ms, order) ==
    LET start_dt == ParseTimestamp(start)
        end_dt == ParseTimestamp(end)
        session_stream_map == _load_session_stream_map(evs)
        prepared == SortedWindowEvents(evs, start, end, attention_window_ms,
                                       session_timeout_ms, order)
        replayed == Replay(prepared.events, prepared.state, EmptyDict, start_dt,
                           session_timeout_ms, session_stream_map, order)
        final_interval_ms == end_dt - replayed.last_ts
        final_state == _prune_stale_sessions(replayed.state, replayed.last_ts,
                                             session_timeout_ms)
    IN  ReplayIntervals(prepared.events, prepared.state, EmptyDict, start_dt,
                        session_timeout_ms, session_stream_map, order)
        \o IF final_interval_ms > 0
           THEN <<[state |-> final_state, interval_ms |-> final_interval_ms,
                   from |-> replayed.last_ts, before |-> replayed.results,
                   after |-> Attribute(final_state, replayed.results,
                                       final_interval_ms, session_stream_map, order),
                   event |-> Synthetic("_end", end, NULL), next |-> final_state]>>
           ELSE <<>>

\* A query that also drops the tags of the streams it found no time for
calculate_time_pruning_tags(start, end, attention_window_ms, session_timeout_ms) ==
    /\ \E order \in SessionOrders :
           /\ ret' = CalculateTime(events, start, end, attention_window_ms,
                                   session_timeout_ms, order)
           /\ tags' = {row \in tags : row[1] \in DOMAIN ret'}
    /\ op' = "calculate_time"
    /\ arg' = <<start, end, attention_window_ms, session_timeout_ms>>
    /\ UNCHANGED <<events, streams>>

\* EventStore.calculate_time as an operation of the store: it reads only
calculate_time(start, end, attention_window_ms, session_timeout_ms) ==
    /\ \E order \in SessionOrders :
           ret' = CalculateTime(events, start, end, attention_window_ms,
                                session_timeout_ms, order)
    /\ op' = "calculate_time"
    /\ arg' = <<start, end, attention_window_ms, session_timeout_ms>>
    /\ UNCHANGED <<events, streams, tags>>

----------------------------------------------------------------------------
(* Tags and the report by tag (cli.py report_command) *)

\* The defaults of calculate_time and run_stream_inference, on the scale of
\* the model: 120_000 ms is SeedAttentionWindowMs ticks and 1_800_000 ms is
\* fifteen times that
DefaultAttentionWindowMs == 2
DefaultSessionTimeoutMs == 30
DefaultGapThresholdMs == 30

\* The tags of the model
Tags == {"t", "u"}

\* The orders in which the rows of a query without ORDER BY, or the keys of a
\* dict filled by another loop, can come
OrdersOf(a_set) ==
    {f \in [1..Cardinality(a_set) -> a_set] : \A i, j \in DOMAIN f : f[i] = f[j] => i = j}

\* EventStore.add_tag(stream_id, tag): the INSERT fails with IntegrityError
\* when the row exists (PRIMARY KEY) or the stream does not (FOREIGN KEY with
\* PRAGMA foreign_keys = ON)
add_tag(stream_id, tag) ==
    LET added == stream_id \in 1..Len(streams) /\ <<stream_id, tag>> \notin tags
    IN  /\ tags' = IF added THEN tags \cup {<<stream_id, tag>>} ELSE tags
        /\ ret' = added
        /\ op' = "add_tag"
        /\ arg' = <<>>
        /\ UNCHANGED <<events, streams>>

\* EventStore.get_stream_tags(stream_ids) on a table value: the streams that
\* have a tag, each with the list of its tags in the order the rows come
get_stream_tags(tag_rows, stream_ids, tag_order) ==
    [stream_id \in {sid \in stream_ids : \E tag \in Tags : <<sid, tag>> \in tag_rows} |->
        SelectSeq(tag_order, LAMBDA tag : <<stream_id, tag>> \in tag_rows)]

\* for tag in tags: tag_data[tag][...] += ...
RECURSIVE AddToTags(_, _, _)
AddToTags(tag_data, tag_list, times) ==
    IF tag_list = <<>> THEN tag_data
    ELSE LET tag == Head(tag_list)
             found == SelectSeq(tag_data, LAMBDA item : item[1] = tag)
             cur == IF found # <<>> THEN found[1][2]
                    ELSE [total_ms |-> 0, direct_ms |-> 0, delegated_ms |-> 0,
                          stream_count |-> 0]
         IN  AddToTags(
                 OdSet(tag_data, tag,
                       [total_ms |-> cur.total_ms + times.direct_ms + times.delegated_ms,
                        direct_ms |-> cur.direct_ms + times.direct_ms,
                        delegated_ms |-> cur.delegated_ms + times.delegated_ms,
                        stream_count |-> cur.stream_count + 1]),
                 Tail(tag_list), times)

\* for stream_id, times in time_by_stream.items(): the aggregation by tag of
\* report_command; stream_list is the order of the keys of time_by_stream
RECURSIVE AggregateByTag(_, _, _, _)
AggregateByTag(stream_list, time_by_stream, stream_tags, tag_data) ==
    IF stream_list = <<>> THEN tag_data
    ELSE LET stream_id == Head(stream_list)
             times == time_by_stream[stream_id]
             tag_list == IF stream_id \in DOMAIN stream_tags
                         THEN stream_tags[stream_id] ELSE <<NULL>>
         IN  AggregateByTag(Tail(stream_list), time_by_stream, stream_tags,
                 IF times.direct_ms = 0 /\ times.delegated_ms = 0
                 THEN tag_data
                 ELSE AddToTags(tag_data, tag_list, times))

\* A key that sorts by total only
sort_key_by_total(item) == <<0, 0 - item[2].total_ms>>

\* sort_key of report_command: untagged always last, else by total descending
sort_key(item) == IF item[1] = NULL THEN <<1, 0>> ELSE <<0, 0 - item[2].total_ms>>

\* sorted(tag_data.items(), key=sort_key)
SortedTags(tag_data) ==
    StableSort(tag_data, [i \in 1..Len(tag_data) |-> sort_key(tag_data[i])])

\* sum(t[field] for t in time_by_stream.values())
RECURSIVE SumTimes(_, _, _)
SumTimes(time_by_stream, stream_list, field) ==
    IF stream_list = <<>> THEN 0
    ELSE time_by_stream[Head(stream_list)][field]
             + SumTimes(time_by_stream, Tail(stream_list), field)

\* Header totals taken from the groups of the report
RECURSIVE SumGroups(_, _)
SumGroups(sorted_tags, field) ==
    IF sorted_tags = <<>> THEN 0
    ELSE Head(sorted_tags)[2][field] + SumGroups(Tail(sorted_tags), field)

HeaderFromTags(time_by_stream, stream_list, sorted_tags) ==
    [total_ms |-> SumGroups(sorted_tags, "total_ms"),
     direct_ms |-> SumGroups(sorted_tags, "direct_ms"),
     delegated_ms |-> SumGroups(sorted_tags, "delegated_ms")]

\* The header totals of _output_json_report, summed from the stream level
HeaderTotals(time_by_stream, stream_list, sorted_tags) ==
    [total_ms |-> SumTimes(time_by_stream, stream_list, "direct_ms")
                      + SumTimes(time_by_stream, stream_list, "delegated_ms"),
     direct_ms |-> SumTimes(time_by_stream, stream_list, "direct_ms"),
     delegated_ms |-> SumTimes(time_by_stream, stream_list, "delegated_ms")]

\* _output_json_report: the totals and the by_tag list of the JSON report
_output_json_report(time_by_stream, stream_list, sorted_tags) ==
    LET header == HeaderTotals(time_by_stream, stream_list, sorted_tags)
    IN  [total_ms |-> header.total_ms,
         direct_ms |-> header.direct_ms,
         delegated_ms |-> header.delegated_ms,
         by_tag |-> [i \in 1..Len(sorted_tags) |->
                        [tag |-> sorted_tags[i][1],
                         total_ms |-> sorted_tags[i][2].total_ms,
                         direct_ms |-> sorted_tags[i][2].direct_ms,
                         delegated_ms |-> sorted_tags[i][2].delegated_ms,
                         stream_count |-> sorted_tags[i][2].stream_count]]]

\* report_command from the check for empty data on: the report of a
\* time_by_stream whose keys come in the order stream_list
Report(time_by_stream, stream_tags, stream_list) ==
    LET total_ms == SumTimes(time_by_stream, stream_list, "direct_ms")
                        + SumTimes(time_by_stream, stream_list, "delegated_ms")
    IN  IF total_ms = 0
        THEN _output_json_report(time_by_stream, stream_list, <<>>)
        ELSE _output_json_report(time_by_stream, stream_list,
                 SortedTags(AggregateByTag(stream_list, time_by_stream,
                                           stream_tags, <<>>)))

\* What report_command can compute from a time_by_stream and the tag rows:
\* the rows of get_stream_tags and the keys of time_by_stream come in some
\* order
Reports(time_by_stream, tag_rows) ==
    {[time_by_stream |-> time_by_stream,
      stream_tags |-> get_stream_tags(tag_rows, DOMAIN time_by_stream, tag_order),
      output |-> Report(time_by_stream,
                        get_stream_tags(tag_rows, DOMAIN time_by_stream, tag_order),
                        stream_list)] :
        tag_order \in OrdersOf(Tags),
        stream_list \in OrdersOf(DOMAIN time_by_stream)}

\* tt report --json over [start, end): stream inference, calculate_time and
\* get_stream_tags with their defaults, then the report.  ret keeps what the
\* command computed (time_by_stream, stream_tags) and what it printed (output)
report_command(start, end) ==
    LET unassigned == get_unassigned_events(events)
        cs == InferredClusters(events, DefaultGapThresholdMs)
        after == IF unassigned = <<>> THEN [events |-> events, streams |-> streams]
                 ELSE ApplyClusters(cs, events, streams)
    IN  /\ Len(streams) + Len(cs) <= MaxStreams
        /\ events' = after.events
        /\ streams' = after.streams
        /\ \E order \in SessionOrders :
               ret' \in Reports(CalculateTime(after.events, start, end,
                                              DefaultAttentionWindowMs,
                                              DefaultSessionTimeoutMs, order),
                                tags)
        /\ op' = "report_command"
        /\ arg' = <<start, end>>
        /\ UNCHANGED tags

----------------------------------------------------------------------------
(* The store as a state machine: ingestion and stream inference *)

Times == 0..MaxTime

\* Working directories an ingested event may carry: none, a directory, and
\* the same directory written with a trailing slash
Cwds == {NoCwd, <<"/", "a">>, <<"/", "a", "/">>}

\* Records ingested in the inference machine
InferenceEvents ==
    [type : {"tmux_pane_focus"}, timestamp : Times, data : {NULL}, cwd : Cwds,
     session_id : {NULL}]

ImportedOf(e) ==
    [id |-> compute_id(e), timestamp |-> e.timestamp, type |-> e.type,
     data |-> e.data, cwd |-> e.cwd]

Init ==
    /\ events = <<>>
    /\ streams = <<>>
    /\ tags = {}
    /\ op = "open"
    /\ arg = <<>>
    /\ ret = NULL

\* What a caller passes to insert_event: the defaults, or a pin by the user
\* (to no stream, or to a stream that exists)
InsertChoices ==
    {<<NoStream, "inferred">>, <<NoStream, "user">>}
        \cup {<<s, "user">> : s \in 1..MaxStreams}

Next ==
    \/ \E e \in InferenceEvents, c \in InsertChoices : insert_event(e, c[1], c[2])
    \/ \E e \in InferenceEvents : insert_imported_event(ImportedOf(e))
    \/ create_stream(<<"u">>)
    \/ \E gap_threshold_ms \in 1..MaxGapMs : run_stream_inference(gap_threshold_ms)

\* The machine with direct calls of assign_events_to_stream, over the events
\* of two seconds and two working directories
PinEvents ==
    {e \in InferenceEvents : e.timestamp <= 1 /\ e.cwd \in {NoCwd, <<"/", "a">>}}

NextAssign ==
    \/ \E e \in PinEvents, c \in InsertChoices : insert_event(e, c[1], c[2])
    \/ \E e \in PinEvents : insert_imported_event(ImportedOf(e))
    \/ create_stream(<<"u">>)
    \/ \E event_ids \in SUBSET Ids(events), stream_id \in 1..MaxStreams :
            assign_events_to_stream(event_ids, stream_id)
    \/ \E gap_threshold_ms \in 1..MaxGapMs : run_stream_inference(gap_threshold_ms)

\* The machine of imports and inference runs over every shape of working
\* directory: none, empty, the root, slashes only, a directory with and
\* without a trailing slash, and a relative directory of the same basename
AllCwds ==
    {NoCwd, <<>>, <<"/">>, <<"/", "/">>, <<"/", "a">>, <<"/", "a", "/">>, <<"a">>}

CwdEvents ==
    [type : {"tmux_pane_focus"}, timestamp : 0..1, data : {NULL}, cwd : AllCwds,
     session_id : {NULL}]

NextCwd ==
    \/ \E e \in CwdEvents : insert_imported_event(ImportedOf(e))
    \/ \E gap_threshold_ms \in 1..MaxGapMs : run_stream_inference(gap_threshold_ms)

Spec == Init /\ [][Next]_vars

SpecAssign == Init /\ [][NextAssign]_vars

SpecCwd == Init /\ [][NextCwd]_vars

\* The machine of imports and inference runs of which some fail
NextFail ==
    \/ \E e \in PinEvents : insert_imported_event(ImportedOf(e))
    \/ \E gap_threshold_ms \in 1..MaxGapMs : run_stream_inference(gap_threshold_ms)
    \/ \E gap_threshold_ms \in 1..MaxGapMs, failed_step \in 1..(2 * MaxStreams) :
            run_stream_inference_fails(gap_threshold_ms, failed_step)

SpecFail == Init /\ [][NextFail]_vars

----------------------------------------------------------------------------
(* The store as a state machine: ingestion and time attribution *)

AttrTimes == 0..MaxAttrTime

\* Records ingested in the attribution machine, with the stream each is
\* stored under: focus, activity, AFK, and the messages of one agent session
AttributionEvents ==
    [type : {"tmux_pane_focus"}, timestamp : AttrTimes, data : {NULL},
     cwd : {NoCwd}, session_id : {NULL}, stream_id : {1, 2}]
    \cup [type : {"tmux_scroll"}, timestamp : AttrTimes, data : {NULL},
          cwd : {NoCwd}, session_id : {NULL}, stream_id : {NoStream}]
    \cup [type : {"window_focus"}, timestamp : AttrTimes, data : {"Terminal", "Other"},
          cwd : {NoCwd}, session_id : {NULL}, stream_id : {NoStream}]
    \cup [type : {"afk_change"}, timestamp : AttrTimes, data : {"idle", "active"},
          cwd : {NoCwd}, session_id : {NULL}, stream_id : {NoStream}]
    \cup [type : {"user_message"}, timestamp : AttrTimes, data : {NULL},
          cwd : {NoCwd}, session_id : {"A"}, stream_id : {NoStream, 2}]

RawOf(e) ==
    [type |-> e.type, timestamp |-> e.timestamp, data |-> e.data, cwd |-> e.cwd,
     session_id |-> e.session_id]

\* Two streams exist (two create_stream calls have been made)
InitAttr ==
    /\ events = <<>>
    /\ streams = <<[id |-> 1, name |-> <<"x">>], [id |-> 2, name |-> <<"y">>]>>
    /\ tags = {}
    /\ op = "create_stream"
    /\ arg = <<>>
    /\ ret = 2

\* Events are ingested, then a report is asked for: after calculate_time,
\* report_command (cli.py) only reads tags and counts days, and the rows a
\* later process finds are the rows the query read
NextAttr ==
    /\ op # "calculate_time"
    /\ \/ \E e \in AttributionEvents :
             /\ Len(events) < MaxAttrEvents
             /\ insert_event(RawOf(e), e.stream_id, "inferred")
       \/ \E start \in AttrTimes, end \in 1..(MaxAttrTime + 1),
             attention_window_ms \in 1..MaxParamMs,
             session_timeout_ms \in 1..MaxParamMs :
               /\ start < end
               /\ calculate_time(start, end, attention_window_ms, session_timeout_ms)

SpecAttr == InitAttr /\ [][NextAttr]_vars

----------------------------------------------------------------------------
(* The store as a state machine: two agent sessions and a report *)

\* Records of two sessions, A of stream 1 and B of stream 2, and of a focus
SessionEvents ==
    [type : {"agent_session"}, timestamp : AttrTimes, data : {"started"},
     cwd : {NoCwd}, session_id : {"A"}, stream_id : {1}]
    \cup [type : {"agent_session"}, timestamp : AttrTimes, data : {"started"},
          cwd : {NoCwd}, session_id : {"B"}, stream_id : {2}]
    \cup [type : {"agent_session"}, timestamp : AttrTimes, data : {"ended"},
          cwd : {NoCwd}, session_id : {"A"}, stream_id : {NoStream}]
    \cup [type : {"agent_tool_use"}, timestamp : AttrTimes, data : {NULL},
          cwd : {NoCwd}, session_id : {"A", "B"}, stream_id : {NoStream}]
    \cup [type : {"tmux_pane_focus"}, timestamp : AttrTimes, data : {NULL},
          cwd : {NoCwd}, session_id : {NULL}, stream_id : {1}]

NextSessions ==
    /\ op # "calculate_time"
    /\ \/ \E e \in SessionEvents :
             /\ Len(events) < MaxAttrEvents
             /\ insert_event(RawOf(e), e.stream_id, "inferred")
       \/ \E start \in AttrTimes, end \in 1..(MaxAttrTime + 1),
             attention_window_ms \in 1..MaxParamMs,
             session_timeout_ms \in 1..MaxSessionTimeoutMs :
               /\ start < end
               /\ calculate_time(start, end, attention_window_ms, session_timeout_ms)

SpecSessions == InitAttr /\ [][NextSessions]_vars

----------------------------------------------------------------------------
(* The store as a state machine: AFK, a focus, an agent session and a report *)

\* Records of AFK changes, of a focus on stream 1 and of the start of a
\* session of stream 2
AfkEvents ==
    [type : {"afk_change"}, timestamp : AttrTimes, data : {"idle", "active"},
     cwd : {NoCwd}, session_id : {NULL}, stream_id : {NoStream}]
    \cup [type : {"tmux_pane_focus"}, timestamp : AttrTimes, data : {NULL},
          cwd : {NoCwd}, session_id : {NULL}, stream_id : {1}]
    \cup [type : {"agent_session"}, timestamp : AttrTimes, data : {"started"},
          cwd : {NoCwd}, session_id : {"A"}, stream_id : {2}]

NextAfk ==
    /\ op # "calculate_time"
    /\ \/ \E e \in AfkEvents :
             /\ Len(events) < MaxAttrEvents
             /\ insert_event(RawOf(e), e.stream_id, "inferred")
       \/ \E start \in AttrTimes, end \in 1..(MaxAttrTime + 1),
             attention_window_ms \in 1..MaxParamMs,
             session_timeout_ms \in 1..MaxParamMs :
               /\ start < end
               /\ calculate_time(start, end, attention_window_ms, session_timeout_ms)

SpecAfk == InitAttr /\ [][NextAfk]_vars

----------------------------------------------------------------------------
(* The store as a state machine: focus, scroll, user messages and a report *)

\* Records of a focus on either stream, of a scroll and of the messages of
\* session A, stored with stream 2 or with none; no agent session starts, so
\* no set of sessions is ever walked
TieEvents ==
    [type : {"tmux_pane_focus"}, timestamp : AttrTimes, data : {NULL},
     cwd : {NoCwd}, session_id : {NULL}, stream_id : {1, 2}]
    \cup [type : {"tmux_scroll"}, timestamp : AttrTimes, data : {NULL},
          cwd : {NoCwd}, session_id : {NULL}, stream_id : {NoStream}]
    \cup [type : {"user_message"}, timestamp : AttrTimes, data : {NULL},
          cwd : {NoCwd}, session_id : {"A"}, stream_id : {NoStream, 2}]

NextTie ==
    /\ op # "calculate_time"
    /\ \/ \E e \in TieEvents :
             /\ Len(events) < MaxAttrEvents
             /\ insert_event(RawOf(e), e.stream_id, "inferred")
       \/ \E start \in AttrTimes, end \in 1..(MaxAttrTime + 1),
             attention_window_ms \in 1..MaxParamMs,
             session_timeout_ms \in 1..MaxParamMs :
               /\ start < end
               /\ calculate_time(start, end, attention_window_ms, session_timeout_ms)

SpecTie == InitAttr /\ [][NextTie]_vars

----------------------------------------------------------------------------
(* The store as a state machine: a focus, an agent session and a query over *)
(* any pair of bounds                                                       *)

\* Records of a focus on stream 1 and of the start of a session of stream 2
WindowEvents ==
    [type : {"tmux_pane_focus"}, timestamp : AttrTimes, data : {NULL},
     cwd : {NoCwd}, session_id : {NULL}, stream_id : {1}]
    \cup [type : {"agent_session"}, timestamp : AttrTimes, data : {"started"},
          cwd : {NoCwd}, session_id : {"A"}, stream_id : {2}]

\* calculate_time takes any two timestamps: start may be at or after end
NextWindow ==
    /\ op # "calculate_time"
    /\ \/ \E e \in WindowEvents :
             /\ Len(events) < MaxAttrEvents
             /\ insert_event(RawOf(e), e.stream_id, "inferred")
       \/ \E start \in AttrTimes, end \in AttrTimes,
             attention_window_ms \in 1..MaxParamMs,
             session_timeout_ms \in 1..MaxParamMs :
               calculate_time(start, end, attention_window_ms, session_timeout_ms)

SpecWindow == InitAttr /\ [][NextWindow]_vars

----------------------------------------------------------------------------
(* The store as a state machine: events without a stream and a report *)

\* Records of a focus, of the messages of session A and of the start of
\* session A, each stored with a stream or with none
NullEvents ==
    [type : {"tmux_pane_focus"}, timestamp : AttrTimes, data : {NULL},
     cwd : {NoCwd}, session_id : {NULL}, stream_id : {NoStream, 1}]
    \cup [type : {"user_message"}, timestamp : AttrTimes, data : {NULL},
          cwd : {NoCwd}, session_id : {"A"}, stream_id : {NoStream, 1}]
    \cup [type : {"agent_session"}, timestamp : AttrTimes, data : {"started"},
          cwd : {NoCwd}, session_id : {"A"}, stream_id : {NoStream, 2}]

NextNull ==
    /\ op # "calculate_time"
    /\ \/ \E e \in NullEvents :
             /\ Len(events) < MaxAttrEvents
             /\ insert_event(RawOf(e), e.stream_id, "inferred")
       \/ \E start \in AttrTimes, end \in 1..(MaxAttrTime + 1),
             attention_window_ms \in 1..MaxParamMs,
             session_timeout_ms \in 1..MaxParamMs :
               /\ start < end
               /\ calculate_time(start, end, attention_window_ms, session_timeout_ms)

SpecNull == InitAttr /\ [][NextNull]_vars

----------------------------------------------------------------------------
(* The store as a state machine: events, tags, a query and a report *)

\* Records of a focus on stream 1, of the start of a session of stream 2
\* and of a focus in a directory that no stream has been given yet
ReportEvents ==
    [type : {"tmux_pane_focus"}, timestamp : AttrTimes, data : {NULL},
     cwd : {NoCwd}, session_id : {NULL}, stream_id : {1}]
    \cup [type : {"agent_session"}, timestamp : {0}, data : {"started"},
          cwd : {NoCwd}, session_id : {"A"}, stream_id : {2}]
    \cup [type : {"tmux_pane_focus"}, timestamp : AttrTimes, data : {NULL},
          cwd : {<<"/", "a">>}, session_id : {NULL}, stream_id : {NoStream}]

\* The tags a user gives: both to stream 1, one to stream 2, and one to a
\* stream that does not exist yet
TagChoices == ({1} \X Tags) \cup ({2, 3} \X {"t"})

\* Events are ingested and streams are tagged; then the time of a window
\* that ends after the last event is asked for, by calculate_time or by
\* tt report
NextReport ==
    /\ op \notin {"calculate_time", "report_command"}
    /\ \/ \E e \in ReportEvents :
             /\ Len(events) < MaxAttrEvents
             /\ insert_event(RawOf(e), e.stream_id, "inferred")
       \/ \E row \in TagChoices : add_tag(row[1], row[2])
       \/ \E start \in AttrTimes :
               calculate_time(start, MaxAttrTime + 1, DefaultAttentionWindowMs,
                              DefaultSessionTimeoutMs)
       \/ \E start \in AttrTimes : report_command(start, MaxAttrTime + 1)

SpecReport == InitAttr /\ [][NextReport]_vars

----------------------------------------------------------------------------
(* Looking a stream up by a prefix of its id *)

\* The characters of the ids that uuid.uuid4() writes, and of the prefixes a
\* caller passes: a digit of an id, the same digit in upper case, and the
\* three characters that the LIKE pattern treats specially
IdChars == {"a", "b"}
PrefixChars == {"a", "A", "b", "%", "_", "\\"}

\* The texts of at most n characters of a set
TextsUpTo(chars, n) == UNION {[1..k -> chars] : k \in 0..n}

\* row["id"][:7]
IdDisplayLen == 7
ShortId(id) == SubSeq(id, 1, IF Len(id) < IdDisplayLen THEN Len(id) ELSE IdDisplayLen)

\* prefix.replace("\\", "\\\\").replace("%", "\\%").replace("_", "\\_")
RECURSIVE EscapeLike(_)
EscapeLike(prefix) ==
    IF prefix = <<>> THEN <<>>
    ELSE IF Head(prefix) \in {"\\", "%", "_"}
         THEN <<"\\", Head(prefix)>> \o EscapeLike(Tail(prefix))
         ELSE <<Head(prefix)>> \o EscapeLike(Tail(prefix))

\* The folding of case that the LIKE operator of SQLite applies to ASCII
\* letters before it compares two characters
FoldCase(c) == IF c = "A" THEN "a" ELSE IF c = "B" THEN "b" ELSE c

\* text LIKE pattern ESCAPE '\': "%" stands for any text, "_" for any one
\* character, and the character after the escape for itself
RECURSIVE Like(_, _)
Like(pattern, text) ==
    IF pattern = <<>> THEN text = <<>>
    ELSE IF Head(pattern) = "\\"
    THEN /\ Len(pattern) >= 2
         /\ text # <<>>
         /\ FoldCase(pattern[2]) = FoldCase(Head(text))
         /\ Like(Tail(Tail(pattern)), Tail(text))
    ELSE IF Head(pattern) = "%"
    THEN \E k \in 0..Len(text) : Like(Tail(pattern), SubSeq(text, k + 1, Len(text)))
    ELSE IF Head(pattern) = "_"
    THEN text # <<>> /\ Like(Tail(pattern), Tail(text))
    ELSE /\ text # <<>>
         /\ FoldCase(Head(pattern)) = FoldCase(Head(text))
         /\ Like(Tail(pattern), Tail(text))

\* EventStore.get_stream_by_prefix(prefix): None, the one row, or a
\* ValueError that names the prefix and the short ids of the rows, in the
\* order the SELECT gave them
get_stream_by_prefix(prefix) ==
    LET escaped == EscapeLike(prefix)
        rows == {k \in 1..Len(streams) : Like(escaped \o <<"%">>, streams[k].id)}
    IN  /\ ret' \in
             IF Cardinality(rows) = 0 THEN {[outcome |-> "None"]}
             ELSE IF Cardinality(rows) > 1
             THEN {[outcome |-> "ValueError", prefix |-> prefix,
                    ids |-> [i \in 1..Cardinality(rows) |-> ShortId(streams[o[i]].id)]] :
                   o \in OrdersOf(rows)}
             ELSE {[outcome |-> "Stream", stream |-> streams[CHOOSE k \in rows : TRUE]]}
        /\ op' = "get_stream_by_prefix"
        /\ arg' = <<prefix>>
        /\ UNCHANGED <<events, streams, tags>>

\* A store of at most MaxPrefixStreams streams, whose ids are distinct texts
\* of MaxIdLen characters
InitPrefix ==
    /\ events = <<>>
    /\ \E ids \in SUBSET [1..MaxIdLen -> IdChars] :
           /\ Cardinality(ids) <= MaxPrefixStreams
           /\ \E o \in OrdersOf(ids) :
                  streams = [k \in 1..Cardinality(ids) |-> [id |-> o[k], name |-> <<"a">>]]
    /\ tags = {}
    /\ op = "open"
    /\ arg = <<>>
    /\ ret = NULL

\* One lookup of a stream by a prefix
NextPrefix ==
    /\ op = "open"
    /\ \E prefix \in TextsUpTo(PrefixChars, MaxPrefixLen) : get_stream_by_prefix(prefix)

SpecPrefix == InitPrefix /\ [][NextPrefix]_vars

----------------------------------------------------------------------------
(* The store as a state machine: pane and window focus, and a query *)

\* Records of a focus on a pane of stream 1 or 2, and of a focus on the
\* terminal or on another application
FocusEvents ==
    [type : {"tmux_pane_focus"}, timestamp : AttrTimes, data : {NULL},
     cwd : {NoCwd}, session_id : {NULL}, stream_id : {1, 2}]
    \cup [type : {"window_focus"}, timestamp : AttrTimes, data : {"Terminal", "Other"},
          cwd : {NoCwd}, session_id : {NULL}, stream_id : {NoStream}]

NextFocus ==
    /\ op # "calculate_time"
    /\ \/ \E e \in FocusEvents :
             /\ Len(events) < MaxAttrEvents
             /\ insert_event(RawOf(e), e.stream_id, "inferred")
       \/ \E start \in AttrTimes, end \in 1..(MaxAttrTime + 1),
             attention_window_ms \in 1..MaxParamMs :
               /\ start < end
               /\ calculate_time(start, end, attention_window_ms,
                                 DefaultSessionTimeoutMs)

SpecFocus == InitAttr /\ [][NextFocus]_vars

----------------------------------------------------------------------------
(* The store as a state machine: messages, focus, and a query *)

\* Records of a focus on a pane of stream 1, of a message with or without a
\* session and with or without a stream of its own, of the start of session
\* A in stream 1, and of a focus on the terminal
MessageEvents ==
    [type : {"tmux_pane_focus"}, timestamp : AttrTimes, data : {NULL},
     cwd : {NoCwd}, session_id : {NULL}, stream_id : {1}]
    \cup [type : {"user_message"}, timestamp : AttrTimes, data : {NULL},
          cwd : {NoCwd}, session_id : {NULL, "A"}, stream_id : {NoStream, 2}]
    \cup [type : {"agent_session"}, timestamp : {0}, data : {"started"},
          cwd : {NoCwd}, session_id : {"A"}, stream_id : {1}]
    \cup [type : {"window_focus"}, timestamp : AttrTimes, data : {"Terminal"},
          cwd : {NoCwd}, session_id : {NULL}, stream_id : {NoStream}]

NextMessage ==
    /\ op # "calculate_time"
    /\ \/ \E e \in MessageEvents :
             /\ Len(events) < MaxAttrEvents
             /\ insert_event(RawOf(e), e.stream_id, "inferred")
       \/ \E start \in AttrTimes, end \in 1..(MaxAttrTime + 1),
             attention_window_ms \in 1..MaxParamMs :
               /\ start < end
               /\ calculate_time(start, end, attention_window_ms,
                                 DefaultSessionTimeoutMs)

SpecMessage == InitAttr /\ [][NextMessage]_vars

----------------------------------------------------------------------------
(* The store as a state machine: one agent session, its tool use, and a query *)

ToolTimes == 0..MaxToolTime

\* Records of the start and of the end of session A of stream 1 and of its
\* tool use
ToolUseEvents ==
    [type : {"agent_session"}, timestamp : ToolTimes, data : {"started"},
     cwd : {NoCwd}, session_id : {"A"}, stream_id : {1}]
    \cup [type : {"agent_session"}, timestamp : ToolTimes, data : {"ended"},
          cwd : {NoCwd}, session_id : {"A"}, stream_id : {NoStream}]
    \cup [type : {"agent_tool_use"}, timestamp : ToolTimes, data : {NULL},
          cwd : {NoCwd}, session_id : {"A"}, stream_id : {NoStream}]

\* The query has an attention window longer than its session timeout, so the
\* lookback reaches events older than the timeout
NextToolUse ==
    /\ op # "calculate_time"
    /\ \/ \E e \in ToolUseEvents :
             /\ Len(events) < MaxAttrEvents
             /\ insert_event(RawOf(e), e.stream_id, "inferred")
       \/ \E start \in ToolTimes, end \in 1..(MaxToolTime + 1),
             session_timeout_ms \in 1..MaxSessionTimeoutMs :
               /\ start < end
               /\ calculate_time(start, end, MaxLookbackMs, session_timeout_ms)

SpecToolUse == InitAttr /\ [][NextToolUse]_vars

----------------------------------------------------------------------------
(* The store as a state machine: events of a type that is not interpreted *)

\* The event types that _apply_transition interprets
INTERPRETED_EVENT_TYPES ==
    {"tmux_pane_focus", "tmux_scroll", "window_focus", "user_message",
     "agent_session", "agent_tool_use", "afk_change"}

\* Records of a focus on stream 1, of the start of session A of stream 1, and
\* of events of another type, with or without a session and a stream
InertEvents ==
    [type : {"tmux_pane_focus"}, timestamp : AttrTimes, data : {NULL},
     cwd : {NoCwd}, session_id : {NULL}, stream_id : {1}]
    \cup [type : {"agent_session"}, timestamp : {0, 1}, data : {"started"},
          cwd : {NoCwd}, session_id : {"A"}, stream_id : {1}]
    \cup [type : {"custom"}, timestamp : AttrTimes, data : {NULL},
          cwd : {NoCwd}, session_id : {NULL, "A"}, stream_id : {NoStream, 2}]

NextInert ==
    /\ op # "calculate_time"
    /\ \/ \E e \in InertEvents :
             /\ Len(events) < MaxAttrEvents
             /\ insert_event(RawOf(e), e.stream_id, "inferred")
       \/ \E start \in AttrTimes, end \in 1..(MaxAttrTime + 1),
             attention_window_ms \in 1..MaxParamMs :
               /\ start < end
               /\ calculate_time(start, end, attention_window_ms,
                                 DefaultSessionTimeoutMs)

SpecInert == InitAttr /\ [][NextInert]_vars

----------------------------------------------------------------------------
(* The store as a state machine: two agent sessions of one stream *)

\* Records of the start and of the end of sessions A and B, both of stream 1
SharedStreamEvents ==
    [type : {"agent_session"}, timestamp : AttrTimes, data : {"started"},
     cwd : {NoCwd}, session_id : {"A", "B"}, stream_id : {1}]
    \cup [type : {"agent_session"}, timestamp : AttrTimes, data : {"ended"},
          cwd : {NoCwd}, session_id : {"A", "B"}, stream_id : {NoStream}]

NextSharedStream ==
    /\ op # "calculate_time"
    /\ \/ \E e \in SharedStreamEvents :
             /\ Len(events) < MaxAttrEvents
             /\ insert_event(RawOf(e), e.stream_id, "inferred")
       \/ \E start \in AttrTimes, end \in 1..(MaxAttrTime + 1),
             session_timeout_ms \in 1..MaxSessionTimeoutMs :
               /\ start < end
               /\ calculate_time(start, end, DefaultAttentionWindowMs,
                                 session_timeout_ms)

SpecSharedStream == InitAttr /\ [][NextSharedStream]_vars

----------------------------------------------------------------------------
(* The store as a state machine: agent events brought in by tt import *)

\* ImportedEvent.model_validate(data): the fields of the class; a key of the
\* record that the class does not declare is dropped
ImportedEvent(data) ==
    [id |-> data.id, timestamp |-> data.timestamp, type |-> data.type,
     data |-> data.data, cwd |-> data.cwd]

\* One line of import_events (tt import): the record is validated and handed to
\* insert_imported_event, which stores it without session_id and stream_id
import_events(data) ==
    /\ Len(events) < MaxAttrEvents
    /\ LET event == ImportedEvent(data)
           row == [id |-> event.id, timestamp |-> event.timestamp,
                   type |-> event.type, data |-> event.data, cwd |-> event.cwd,
                   session_id |-> NULL, stream_id |-> NoStream,
                   assignment_source |-> "imported"]
       IN  /\ events' = InsertOrIgnore(events, row)
           /\ ret' = (event.id \notin Ids(events))
    /\ op' = "import_events"
    /\ arg' = <<data>>
    /\ UNCHANGED <<streams, tags>>

\* The lines of an export: the start, the tool use and the end of sessions A
\* and B, each with its id and its session_id
ImportLines ==
    {[id |-> compute_id(e), timestamp |-> e.timestamp, type |-> e.type,
      data |-> e.data, cwd |-> e.cwd, session_id |-> e.session_id] :
        e \in [type : {"agent_session"}, timestamp : AttrTimes,
               data : {"started", "ended"}, cwd : {NoCwd}, session_id : {"A", "B"}]
              \cup [type : {"agent_tool_use"}, timestamp : AttrTimes, data : {NULL},
                    cwd : {NoCwd}, session_id : {"A", "B"}]}

NextImport ==
    /\ op # "calculate_time"
    /\ \/ \E data \in ImportLines : import_events(data)
       \/ \E start \in AttrTimes :
              calculate_time(start, MaxAttrTime + 1, DefaultAttentionWindowMs,
                             DefaultSessionTimeoutMs)

SpecImport == InitAttr /\ [][NextImport]_vars

----------------------------------------------------------------------------
(* The store as a state machine: leaving the terminal and coming back *)

\* Records of a focus on a pane of stream 1, and of a focus on another
\* application or on the terminal
RestoreEvents ==
    [type : {"tmux_pane_focus"}, timestamp : {0}, data : {NULL},
     cwd : {NoCwd}, session_id : {NULL}, stream_id : {1}]
    \cup [type : {"window_focus"}, timestamp : AttrTimes, data : {"Terminal", "Other"},
          cwd : {NoCwd}, session_id : {NULL}, stream_id : {NoStream}]

\* The table after insert_event has stored the records of a list, each with
\* the stream it was given
RECURSIVE Ingested(_)
Ingested(records) ==
    IF records = <<>> THEN <<>>
    ELSE LET e == records[Len(records)]
             row == [id |-> compute_id(RawOf(e)), timestamp |-> e.timestamp,
                     type |-> e.type, data |-> e.data, cwd |-> e.cwd,
                     session_id |-> e.session_id, stream_id |-> e.stream_id,
                     assignment_source |-> "inferred"]
         IN  InsertOrIgnore(Ingested(SubSeq(records, 1, Len(records) - 1)), row)

\* Two streams exist and at most MaxRestoreEvents records have been ingested
InitRestore ==
    /\ \E n \in 0..MaxRestoreEvents :
           \E records \in [1..n -> RestoreEvents] : events = Ingested(records)
    /\ streams = <<[id |-> 1, name |-> <<"x">>], [id |-> 2, name |-> <<"y">>]>>
    /\ tags = {}
    /\ op = "insert_event"
    /\ arg = <<>>
    /\ ret = NULL

\* The query has an attention window as long as the history, so the user is
\* not idle when the focus comes back
NextRestore ==
    /\ op # "calculate_time"
    /\ \E start \in AttrTimes, end \in 1..(MaxAttrTime + 1) :
           /\ start < end
           /\ calculate_time(start, end, MaxLookbackMs, DefaultSessionTimeoutMs)

SpecRestore == InitRestore /\ [][NextRestore]_vars

----------------------------------------------------------------------------
(* Properties of time attribution, checked under SpecAttr *)

\* The window of the last query, in ticks
WindowMs == ParseTimestamp(arg[2]) - ParseTimestamp(arg[1])

\* The sum of direct_ms over the streams of a result
RECURSIVE SumDirect(_, _)
SumDirect(results, keys) ==
    IF keys = {} THEN 0
    ELSE LET k == CHOOSE k \in keys : TRUE
         IN  results[k].direct_ms + SumDirect(results, keys \ {k})

\* The rows of a table whose timestamp satisfies keep
RowsWhere(evs, keep(_)) == SelectSeq(evs, LAMBDA r : keep(r.timestamp))

\* C1: for any event history and any window [s, e] with s < e, the sum over
\* all streams of the direct_ms returned by calculate_time(s, e) is at most
\* e - s.
DirectSumBound ==
    op = "calculate_time" => SumDirect(ret, DOMAIN ret) <= WindowMs

\* A query in which two streams both accrue direct time and together fill
\* the whole window
DirectSumBoundWitness ==
    /\ op = "calculate_time"
    /\ DOMAIN ret = {1, 2}
    /\ ret[1].direct_ms > 0
    /\ ret[2].direct_ms > 0
    /\ SumDirect(ret, DOMAIN ret) = WindowMs

\* C5: two calculate_time runs with the same window and parameters on the
\* same event history yield identical per-stream direct_ms and delegated_ms:
\* whatever order a process walks its sets of session ids in, it returns the
\* result that was returned.
ReplayDeterminism ==
    op = "calculate_time" =>
        \A order \in SessionOrders :
            ret = CalculateTime(events, arg[1], arg[2], arg[3], arg[4], order)

\* A query whose replayed list of events differs between two processes (the
\* timeouts of two seeded sessions fall on one instant) and in which both
\* sessions accrue delegated time
ReplayDeterminismWitness ==
    /\ op = "calculate_time"
    /\ SortedWindowEvents(events, arg[1], arg[2], arg[3], arg[4], <<"A", "B">>).events
           # SortedWindowEvents(events, arg[1], arg[2], arg[3], arg[4], <<"B", "A">>).events
    /\ DOMAIN ret = {1, 2}
    /\ ret[1].delegated_ms > 0
    /\ ret[2].delegated_ms > 0

\* C2: for any event history, any window and any attention_window_ms and
\* session_timeout_ms, every direct_ms and every delegated_ms in the result
\* of calculate_time is >= 0.
NonNegativity ==
    op = "calculate_time" =>
        \A k \in DOMAIN ret : ret[k].direct_ms >= 0 /\ ret[k].delegated_ms >= 0

\* C3: with L = max(attention_window_ms, session_timeout_ms), the result of
\* calculate_time(s, e) is the result on the store from which every event
\* with a timestamp strictly before s - L has been deleted.
SeedingLocality ==
    op = "calculate_time" =>
        LET L == IF arg[3] >= arg[4] THEN arg[3] ELSE arg[4]
            kept == RowsWhere(events,
                        LAMBDA ts : ParseTimestamp(ts) >= ParseTimestamp(arg[1]) - L)
        IN  \A order \in SessionOrders :
                ret = CalculateTime(kept, arg[1], arg[2], arg[3], arg[4], order)

\* C4: the result of calculate_time(s, e) is the result on the store from
\* which every event with a timestamp later than e has been removed.
PureOfHistoryUpToEnd ==
    op = "calculate_time" =>
        LET kept == RowsWhere(events, LAMBDA ts : ts <= arg[2])
        IN  \A order \in SessionOrders :
                ret = CalculateTime(kept, arg[1], arg[2], arg[3], arg[4], order)

----------------------------------------------------------------------------
(* Properties of stream inference *)

\* A row inference would take up: no stream and not pinned by the user
IsUnassigned(r) == r.stream_id = NoStream /\ r.assignment_source # "user"

\* The row of a table with a given id keeps its stream_id and its
\* assignment_source in another table
KeepsAssignment(r, evs) ==
    \E j \in 1..Len(evs) :
        /\ evs[j].id = r.id
        /\ evs[j].stream_id = r.stream_id
        /\ evs[j].assignment_source = r.assignment_source

\* C6: an event with assignment_source = user keeps its stream_id and its
\* assignment_source through every run_stream_inference call and every
\* insertion in between, and no cluster of an inference run contains it.
UserPinInvariance ==
    [][\A i \in 1..Len(events) :
            events[i].assignment_source = "user" =>
                /\ KeepsAssignment(events[i], events')
                /\ op' = "run_stream_inference" =>
                       \A k \in 1..Len(InferredClusters(events, arg'[1])) :
                           events[i] \notin
                               Range(InferredClusters(events, arg'[1])[k].cluster)]_vars

\* An inference run has assigned events while a row pinned by the user to no
\* stream, and a row pinned to a stream, are in the table
UserPinInvarianceWitness ==
    /\ op = "run_stream_inference"
    /\ ret >= 1
    /\ \E i \in 1..Len(events) :
           events[i].assignment_source = "user" /\ events[i].stream_id = NoStream
    /\ \E i \in 1..Len(events) :
           events[i].assignment_source = "user" /\ events[i].stream_id # NoStream

\* C7: an event's stream_id, once set with assignment_source = user, is never
\* overwritten by any store operation, assign_events_to_stream included: the
\* row keeps its stream_id and its assignment_source in every step.
UserPinNeverOverwritten ==
    [][\A i \in 1..Len(events) :
            events[i].assignment_source = "user" /\ events[i].stream_id # NoStream =>
                KeepsAssignment(events[i], events')]_vars

\* C8: a run_stream_inference call made when no event is unassigned returns
\* 0, creates no stream and changes no event; and no run changes the
\* stream_id of an event that has one.
InferenceIdempotence ==
    [][op' = "run_stream_inference" =>
            /\ (\A i \in 1..Len(events) : ~IsUnassigned(events[i])) =>
                   ret' = 0 /\ streams' = streams /\ events' = events
            /\ \A i \in 1..Len(events) :
                   events[i].stream_id # NoStream =>
                       /\ events'[i].id = events[i].id
                       /\ events'[i].stream_id = events[i].stream_id]_vars

\* A run that found nothing to do, after an earlier run assigned an event
InferenceIdempotenceWitness ==
    /\ op = "run_stream_inference"
    /\ ret = 0
    /\ \E i \in 1..Len(events) :
           events[i].assignment_source = "inferred" /\ events[i].stream_id # NoStream

\* Rows i < j of the table are unassigned, of one normalized cwd, and no
\* unassigned row of that cwd lies between them
AdjacentInGroup(evs, i, j) ==
    /\ i < j
    /\ IsUnassigned(evs[i])
    /\ IsUnassigned(evs[j])
    /\ NormalizeCwd(evs[i].cwd) = NormalizeCwd(evs[j].cwd)
    /\ \A k \in (i + 1)..(j - 1) :
           ~(IsUnassigned(evs[k]) /\ NormalizeCwd(evs[k].cwd) = NormalizeCwd(evs[i].cwd))

\* C9: within one inference run, two unassigned events of the same normalized
\* cwd that are adjacent in timestamp order get the same stream iff their gap
\* is <= gap_threshold_ms.
ClusteringRule ==
    [][op' = "run_stream_inference" =>
            \A i, j \in 1..Len(events) :
                AdjacentInGroup(events, i, j) =>
                    /\ events'[i].stream_id # NoStream
                    /\ events'[j].stream_id # NoStream
                    /\ (events'[i].stream_id = events'[j].stream_id) <=>
                       (ParseTimestamp(events[j].timestamp)
                            - ParseTimestamp(events[i].timestamp) <= arg'[1])]_vars

\* A run that assigned two events whose gap is exactly gap_threshold_ms and
\* kept them in one stream
ClusteringRuleWitness ==
    /\ op = "run_stream_inference"
    /\ ret = 2
    /\ Len(events) = 2
    /\ ParseTimestamp(events[2].timestamp) - ParseTimestamp(events[1].timestamp) = arg[1]
    /\ arg[1] > 0
    /\ events[1].stream_id = events[2].stream_id
    /\ events[1].stream_id # NoStream

\* C10 (its last part): in one inference run, two unassigned events of one
\* timestamp whose cwd values differ only by a trailing slash (the longer is
\* not the root "/" itself) get the same stream.
TrailingSlashSameGroup ==
    [][op' = "run_stream_inference" =>
            \A i, j \in 1..Len(events) :
                /\ IsUnassigned(events[i])
                /\ IsUnassigned(events[j])
                /\ events[i].timestamp = events[j].timestamp
                /\ events[j].cwd # NoCwd
                /\ events[j].cwd # <<>>
                /\ events[i].cwd = Append(events[j].cwd, "/")
                => events'[i].stream_id = events'[j].stream_id]_vars

\* C11: after any sequence of insertions and run_stream_inference calls, any
\* two inferred events of the same normalized cwd whose timestamps differ by
\* at most gap_threshold_ms have the same stream_id.
SameStreamWithinGap ==
    op = "run_stream_inference" =>
        \A i, j \in 1..Len(events) :
            /\ i < j
            /\ events[i].assignment_source = "inferred"
            /\ events[j].assignment_source = "inferred"
            /\ events[i].stream_id # NoStream
            /\ events[j].stream_id # NoStream
            /\ NormalizeCwd(events[i].cwd) = NormalizeCwd(events[j].cwd)
            /\ ParseTimestamp(events[j].timestamp)
                   - ParseTimestamp(events[i].timestamp) <= arg[1]
            => events[i].stream_id = events[j].stream_id

\* C12: if run_stream_inference fails partway, the store afterwards holds
\* exactly the streams and event assignments it held before the call.
InferenceAtomicity ==
    [][op' = "run_stream_inference_failed" =>
            events' = events /\ streams' = streams]_vars

\* A run that failed after it had created a stream and assigned a cluster
InferenceAtomicityWitness ==
    /\ op = "run_stream_inference_failed"
    /\ arg[2] >= 3
    /\ \E i \in 1..Len(events) : IsUnassigned(events[i])

\* C13: run_stream_inference returns exactly the number of events that were
\* unassigned when it was called; after it returns no such event remains,
\* each of them has the stream_id of a stream created by this call and
\* assignment_source = inferred, and every stream created by the call has at
\* least one event.
InferenceAssignsAll ==
    [][op' = "run_stream_inference" =>
            /\ ret' = Cardinality({i \in 1..Len(events) : IsUnassigned(events[i])})
            /\ Len(events') = Len(events)
            /\ \A i \in 1..Len(events') : ~IsUnassigned(events'[i])
            /\ \A i \in 1..Len(events) :
                   IsUnassigned(events[i]) =>
                       /\ events'[i].id = events[i].id
                       /\ events'[i].stream_id \in (Len(streams) + 1)..Len(streams')
                       /\ events'[i].assignment_source = "inferred"
            /\ \A sid \in (Len(streams) + 1)..Len(streams') :
                   \E i \in 1..Len(events') : events'[i].stream_id = sid]_vars

\* A run that returned 3 and spread three imported events over two of the
\* streams it created
InferenceAssignsAllWitness ==
    /\ op = "run_stream_inference"
    /\ ret = 3
    /\ Len(events) = 3
    /\ Len(streams) >= 2
    /\ \A i \in 1..3 : events[i].assignment_source = "inferred"
    /\ \E i, j \in 1..3 : events[i].stream_id # events[j].stream_id

----------------------------------------------------------------------------
(* Properties of the replay, checked under SpecAttr and SpecSessions *)

\* The direct_ms and the delegated_ms a result gives a stream
DirectOf(results, stream) ==
    IF stream \in DOMAIN results THEN results[stream].direct_ms ELSE 0

DelegatedOf(results, stream) ==
    IF stream \in DOMAIN results THEN results[stream].delegated_ms ELSE 0

Min(a, b) == IF a <= b THEN a ELSE b

\* C14 (its second part): a single focus event at time t of the window on
\* stream X, with no later activity, yields
\* direct_ms = min(attention_window_ms, e - t) for X.
AttentionWindowCap ==
    (/\ op = "calculate_time"
     /\ Len(events) = 1
     /\ events[1].type = "tmux_pane_focus"
     /\ arg[1] <= events[1].timestamp
     /\ events[1].timestamp <= arg[2])
    => DirectOf(ret, events[1].stream_id)
           = Min(arg[3], ParseTimestamp(arg[2]) - ParseTimestamp(events[1].timestamp))

\* The intervals of the last query, in a process that walks sets in order
QueryIntervals(order) == IntervalsOf(events, arg[1], arg[2], arg[3], arg[4], order)

\* The active sessions of a replay state that the session map gives a stream
MappedTo(state, stream) ==
    {sid \in state.active_sessions :
        MapGet(_load_session_stream_map(events), sid) = stream}

\* C15: over any replay interval during which is_afk is true no stream's
\* direct_ms changes, while delegated_ms accrues the interval for every
\* active mapped session.
AfkSuppressesDirectOnly ==
    op = "calculate_time" =>
        \A order \in SessionOrders :
            LET ivs == QueryIntervals(order)
            IN  /\ ivs[Len(ivs)].after = ret
                /\ \A k \in 1..Len(ivs) :
                       ivs[k].state.is_afk =>
                           \A stream \in 1..Len(streams) :
                               /\ DirectOf(ivs[k].after, stream)
                                      = DirectOf(ivs[k].before, stream)
                               /\ DelegatedOf(ivs[k].after, stream)
                                      = DelegatedOf(ivs[k].before, stream)
                                        + ivs[k].interval_ms
                                          * Cardinality(MappedTo(ivs[k].state, stream))

\* A query with an interval of positive length under AFK in which a stream
\* is focused and not idle and a mapped session is active
AfkSuppressesDirectOnlyWitness ==
    /\ op = "calculate_time"
    /\ \E k \in 1..Len(QueryIntervals(<<"A", "B">>)) :
           LET iv == QueryIntervals(<<"A", "B">>)[k]
           IN  /\ iv.state.is_afk
               /\ ~iv.state.is_idle
               /\ iv.state.current_stream = 1
               /\ iv.interval_ms > 0
               /\ MappedTo(iv.state, 2) # {}
    /\ DirectOf(ret, 1) = 0
    /\ DelegatedOf(ret, 2) > 0

IsAfkReturn(event) == event.type = "afk_change" /\ event.data = "active"

\* The _idle_start events calculate_time replays on a table value
IdleStarts(evs, order) ==
    SelectSeq(SortedWindowEvents(evs, arg[1], arg[2], arg[3], arg[4], order).events,
              LAMBDA e : e.type = "_idle_start")

SessionTimeoutCap ==
    (/\ op = "calculate_time"
     /\ Len(events) = 1
     /\ events[1].type = "agent_session"
     /\ events[1].data = "started"
     /\ arg[1] <= events[1].timestamp
     /\ events[1].timestamp < arg[2])
    => DelegatedOf(ret, events[1].stream_id)
           = Min(arg[4], ParseTimestamp(arg[2]) - ParseTimestamp(events[1].timestamp))

\* The list the last query replays, and the stream a user_message focuses
QuerySorted(order) ==
    SortedWindowEvents(events, arg[1], arg[2], arg[3], arg[4], order).events

MessageStream(session_stream_map, event) ==
    LET mapped == MapGet(session_stream_map, event.session_id)
    IN  IF mapped # NoStream THEN mapped ELSE event.stream_id

SeededState ==
    SortedWindowEvents(events, arg[1], arg[2], arg[3], arg[4], <<"A", "B">>).state

LookbackMs == IF arg[3] >= arg[4] THEN arg[3] ELSE arg[4]

PreWindowRows ==
    SelectSeq(events,
              LAMBDA r : /\ ParseTimestamp(arg[1]) - LookbackMs <= ParseTimestamp(r.timestamp)
                         /\ ParseTimestamp(r.timestamp) < ParseTimestamp(arg[1]))

\* C19: when the rows of [s - L, s) hold an activity event, the seeded
\* is_idle is true iff s - last_activity > attention_window_ms, with
\* last_activity the timestamp of the latest such event and
\* attention_window_ms the value passed to the query.
SeededIdleness ==
    op = "calculate_time" =>
        LET activity == SelectSeq(PreWindowRows,
                                  LAMBDA r : r.type \in ACTIVITY_EVENT_TYPES)
            last_activity == ParseTimestamp(activity[Len(activity)].timestamp)
        IN  activity # <<>> =>
                (SeededState.is_idle
                     <=> ParseTimestamp(arg[1]) - last_activity > arg[3])

\* C20 (the sessions it includes): a session whose rows of [s - L, s) have
\* distinct timestamps, the latest of them an agent_session(started) within
\* session_timeout_ms of s, is active at s, whatever came before that start.
SeededSessions ==
    op = "calculate_time" =>
        \A sid \in SessionIds :
            LET rows == SelectSeq(PreWindowRows, LAMBDA r : r.session_id = sid)
                latest == rows[Len(rows)]
            IN  (/\ rows # <<>>
                 /\ \A i, j \in 1..Len(rows) :
                        i < j => rows[i].timestamp < rows[j].timestamp
                 /\ latest.type = "agent_session"
                 /\ latest.data = "started"
                 /\ ParseTimestamp(arg[1]) - ParseTimestamp(latest.timestamp) <= arg[4])
                => sid \in SeededState.active_sessions

----------------------------------------------------------------------------
(* Properties of the query window, checked under SpecWindow *)

\* C21 (its result): if s >= e, calculate_time returns {} for any event
\* history, attention_window_ms and session_timeout_ms.
DegenerateWindowEmpty ==
    (op = "calculate_time" /\ arg[1] >= arg[2]) => ret = EmptyDict

----------------------------------------------------------------------------
(* Properties of tags and of the report, checked under SpecReport *)

\* C22: calculate_time leaves every event (with its stream_id and its
\* assignment_source), every stream and every tag row unchanged.
AttributionReadOnly ==
    [][op' = "calculate_time" =>
           /\ events' = events
           /\ streams' = streams
           /\ tags' = tags]_vars

\* A query that found time for one stream, over a store that holds a tag of
\* another stream
AttributionReadOnlyWitness ==
    /\ op = "calculate_time"
    /\ ret # EmptyDict
    /\ \E row \in tags : row[1] \in 1..Len(streams) /\ row[1] \notin DOMAIN ret

----------------------------------------------------------------------------
(* Properties of events without a stream, checked under SpecNull *)

\* C23: the result of calculate_time never has a null key; a tmux_pane_focus
\* whose stream_id is null makes current_stream null, it stays null until the
\* next focusing event, and while it is null no direct time accrues to any
\* stream; a history whose events all have a null stream_id yields {}.
NullStreamsAttributeNothing ==
    op = "calculate_time" =>
        /\ NoStream \notin DOMAIN ret
        /\ (\A i \in 1..Len(events) : events[i].stream_id = NoStream)
               => ret = EmptyDict
        /\ \A order \in SessionOrders :
               LET ivs == QueryIntervals(order)
               IN  /\ ivs[Len(ivs)].after = ret
                   /\ \A k \in 1..Len(ivs) :
                          /\ (/\ ivs[k].event.type = "tmux_pane_focus"
                              /\ ivs[k].event.stream_id = NoStream)
                             => ivs[k].next.current_stream = NoStream
                          /\ (/\ ivs[k].state.current_stream = NoStream
                              /\ ivs[k].event.type \notin FOCUS_EVENT_TYPES)
                             => ivs[k].next.current_stream = NoStream
                          /\ k < Len(ivs) =>
                                 ivs[k + 1].state.current_stream
                                     = ivs[k].next.current_stream
                          /\ ivs[k].state.current_stream = NoStream
                             => \A stream \in 1..Len(streams) :
                                    DirectOf(ivs[k].after, stream)
                                        = DirectOf(ivs[k].before, stream)

\* A query in which the focus is on stream 1 and active, a tmux_pane_focus
\* without a stream follows, and time passes after it
NullStreamsAttributeNothingWitness ==
    /\ op = "calculate_time"
    /\ LET ivs == QueryIntervals(<<"A", "B">>)
       IN  \E k \in 1..(Len(ivs) - 1) :
               /\ ivs[k].event.type = "tmux_pane_focus"
               /\ ivs[k].event.stream_id = NoStream
               /\ ivs[k].state.current_stream = 1
               /\ ivs[k].interval_ms > 0
               /\ DirectOf(ivs[k].after, 1) > DirectOf(ivs[k].before, 1)
               /\ ivs[k + 1].interval_ms > 0
               /\ ~ivs[k + 1].state.is_idle
               /\ ~ivs[k + 1].state.is_afk

\* The rows of a session that carry a stream_id
StreamRows(sid) ==
    SelectSeq(events, LAMBDA r : r.session_id = sid /\ r.stream_id # NoStream)

\* C24: the session map has an entry exactly for the sessions that appear on
\* an event with a stream_id, and the entry is the stream_id of such an event
\* of the earliest timestamp; a started session stays in active_sessions
\* whether or not it has an entry, and every interval gives a stream the
\* delegated time of the active sessions mapped to it, so a session without
\* an entry contributes none.
SessionStreamMap ==
    op = "calculate_time" =>
        LET map == _load_session_stream_map(events)
        IN  /\ DOMAIN map = {sid \in SessionIds : StreamRows(sid) # <<>>}
            /\ \A sid \in DOMAIN map :
                   \E i \in 1..Len(StreamRows(sid)) :
                       /\ map[sid] = StreamRows(sid)[i].stream_id
                       /\ \A j \in 1..Len(StreamRows(sid)) :
                              StreamRows(sid)[i].timestamp <= StreamRows(sid)[j].timestamp
            /\ \A order \in SessionOrders :
                   LET ivs == QueryIntervals(order)
                   IN  /\ ivs[Len(ivs)].after = ret
                       /\ \A k \in 1..Len(ivs) :
                              /\ (/\ ivs[k].event.type = "agent_session"
                                  /\ ivs[k].event.data = "started")
                                 => ivs[k].event.session_id
                                        \in ivs[k].next.active_sessions
                              /\ \A stream \in 1..Len(streams) :
                                     DelegatedOf(ivs[k].after, stream)
                                         = DelegatedOf(ivs[k].before, stream)
                                           + ivs[k].interval_ms
                                             * Cardinality({sid \in ivs[k].state.active_sessions :
                                                               MapGet(map, sid) = stream})

\* A query over a session whose earliest row with a stream is on stream 1
\* and whose later row is on stream 2: its delegated time goes to stream 1
SessionStreamMapWitness ==
    /\ op = "calculate_time"
    /\ \E i, j \in 1..Len(events) :
           /\ events[i].session_id = "A"
           /\ events[j].session_id = "A"
           /\ events[i].stream_id = 1
           /\ events[j].stream_id = 2
           /\ events[i].timestamp < events[j].timestamp
    /\ DelegatedOf(ret, 1) > 0
    /\ DelegatedOf(ret, 2) = 0

----------------------------------------------------------------------------
(* Properties of ingestion, checked under Spec *)

\* C25: an insert either leaves the events table as it is or adds one row
\* whose id the table did not hold, so inserting an id that exists changes
\* nothing; every existing row keeps all its fields and ids stay unique;
\* insert_imported_event returns True iff the row was newly inserted.
IdempotentIngestion ==
    [][op' \in {"insert_event", "insert_imported_event"} =>
           /\ streams' = streams
           /\ \/ events' = events
              \/ \E k \in 1..Len(events') :
                     /\ events'[k].id \notin Ids(events)
                     /\ events = SubSeq(events', 1, k - 1)
                                     \o SubSeq(events', k + 1, Len(events'))
           /\ \A i, j \in 1..Len(events') :
                  events'[i].id = events'[j].id => i = j
           /\ op' = "insert_imported_event" =>
                  /\ ret' \in BOOLEAN
                  /\ ret' <=> Len(events') = Len(events) + 1]_vars

\* An import of an event that is stored and has a stream already: nothing is
\* inserted and the row keeps its stream
IdempotentIngestionWitness ==
    /\ op = "insert_imported_event"
    /\ ret = FALSE
    /\ Len(events) = 1
    /\ events[1].stream_id # NoStream
    /\ events[1].assignment_source = "inferred"

----------------------------------------------------------------------------
(* Properties of stream names, checked under SpecCwd *)

\* C26 (the name of every stream): a stream created by inference has the name
\* "Uncategorized" when the cwd of its events is null or empty, "/" when the
\* cwd is the root, and otherwise the basename of the cwd without its
\* trailing slashes.  A cwd written with slashes only, other than "/", strips
\* to the empty string: for it either of the two names is taken as right.
StreamNaming ==
    \A i \in 1..Len(events) :
        events[i].stream_id # NoStream =>
            LET name == streams[events[i].stream_id].name
                cwd == events[i].cwd
            IN  IF cwd = NoCwd \/ cwd = <<>> THEN name = <<"Uncategorized">>
                ELSE IF cwd = <<"/">> THEN name = <<"/">>
                ELSE IF RStripSlash(cwd) = <<>>
                THEN name \in {<<"/">>, <<"Uncategorized">>}
                ELSE name = RSplitLast(RStripSlash(cwd))

----------------------------------------------------------------------------
(* Properties of the lookup by prefix, checked under SpecPrefix *)

\* text starts with prefix, character for character
StartsWith(text, prefix) ==
    Len(prefix) <= Len(text) /\ SubSeq(text, 1, Len(prefix)) = prefix

\* The rows of the streams whose id starts with the prefix that was looked up
PrefixCandidates == {k \in 1..Len(streams) : StartsWith(streams[k].id, arg[1])}

\* C27 (lookup by prefix): the lookup returns the stream when exactly one
\* stream id starts with the prefix, None when none does, and fails with an
\* error that lists the candidates when several do; a stream it returns has
\* an id that starts with the prefix.
PrefixLookup ==
    op = "get_stream_by_prefix" =>
        /\ Cardinality(PrefixCandidates) = 1 =>
               /\ ret.outcome = "Stream"
               /\ ret.stream = streams[CHOOSE k \in PrefixCandidates : TRUE]
        /\ Cardinality(PrefixCandidates) = 0 => ret.outcome = "None"
        /\ Cardinality(PrefixCandidates) > 1 =>
               /\ ret.outcome = "ValueError"
               /\ {ret.ids[i] : i \in DOMAIN ret.ids}
                      = {ShortId(streams[k].id) : k \in PrefixCandidates}
        /\ ret.outcome = "Stream" => StartsWith(ret.stream.id, arg[1])

----------------------------------------------------------------------------
(* Properties of the report by tag, checked under SpecReport *)

\* The by_tag list that the last report printed
ByTag == ret.output.by_tag

\* C28 (report ordering): in the report by tag the groups with a tag come by
\* their total, direct plus delegated, in descending order, and the untagged
\* group (tag null) is the last one whatever its total.
ReportOrdering ==
    op = "report_command" =>
        /\ \A i \in 1..Len(ByTag) :
               /\ ByTag[i].total_ms = ByTag[i].direct_ms + ByTag[i].delegated_ms
               /\ ByTag[i].tag = NULL => i = Len(ByTag)
        /\ \A i, j \in 1..Len(ByTag) :
               (i < j /\ ByTag[j].tag # NULL) => ByTag[i].total_ms >= ByTag[j].total_ms

\* A report whose untagged group, the last one, has more time than the
\* group of a tag that comes first
ReportOrderingWitness ==
    /\ op = "report_command"
    /\ Len(ByTag) >= 2
    /\ ByTag[1].tag # NULL
    /\ ByTag[Len(ByTag)].tag = NULL
    /\ ByTag[Len(ByTag)].total_ms > ByTag[1].total_ms

\* The sum of a field of time_by_stream over a set of streams
RECURSIVE SumField(_, _, _)
SumField(time_by_stream, keys, field) ==
    IF keys = {} THEN 0
    ELSE LET k == CHOOSE k \in keys : TRUE
         IN  time_by_stream[k][field] + SumField(time_by_stream, keys \ {k}, field)

\* The streams with time that the last report had to count under a tag, or
\* under the untagged group when the tag is null
StreamsOfTag(tag) ==
    {sid \in DOMAIN ret.time_by_stream :
        /\ ret.time_by_stream[sid].direct_ms # 0 \/ ret.time_by_stream[sid].delegated_ms # 0
        /\ IF tag = NULL THEN sid \notin DOMAIN ret.stream_tags
           ELSE /\ sid \in DOMAIN ret.stream_tags
                /\ \E i \in DOMAIN ret.stream_tags[sid] : ret.stream_tags[sid][i] = tag}

\* The sum of the totals of the groups of the last report
RECURSIVE SumByTag(_)
SumByTag(by_tag) ==
    IF by_tag = <<>> THEN 0 ELSE Head(by_tag).total_ms + SumByTag(Tail(by_tag))

----------------------------------------------------------------------------
(* Properties of window focus, checked under SpecFocus *)

IsWindowFocus(event) == event.type = "window_focus"

\* C30 (window_focus transitions): a focus on the terminal makes
\* current_stream the previous_stream when that is not null and changes
\* nothing otherwise; a focus on any other application moves current_stream
\* to previous_stream and makes current_stream null; neither changes is_idle,
\* last_activity or any other field; previous_stream is null when the window
\* starts, so a focus on the terminal that no other focus precedes leaves
\* current_stream null and no stream gets direct time.
WindowFocusTransitions ==
    op = "calculate_time" =>
        \A order \in SessionOrders :
            LET ivs == QueryIntervals(order)
            IN  /\ ivs[Len(ivs)].after = ret
                /\ ivs[1].state.previous_stream = NoStream
                /\ \A k \in 1..Len(ivs) :
                       IsWindowFocus(ivs[k].event) =>
                           ivs[k].next =
                               IF ivs[k].event.data = "Terminal"
                               THEN IF ivs[k].state.previous_stream # NoStream
                                    THEN [ivs[k].state EXCEPT
                                             !.current_stream = ivs[k].state.previous_stream]
                                    ELSE ivs[k].state
                               ELSE [ivs[k].state EXCEPT
                                        !.previous_stream = ivs[k].state.current_stream,
                                        !.current_stream = NoStream]
                /\ (\A i \in 1..Len(events) :
                        IsWindowFocus(events[i]) /\ events[i].data = "Terminal")
                       => /\ \A k \in 1..Len(ivs) : ivs[k].next.current_stream = NoStream
                          /\ \A stream \in 1..Len(streams) : DirectOf(ret, stream) = 0

\* A query in which the focus leaves a pane of stream 1 for another
\* application and comes back to the terminal, which restores stream 1
WindowFocusTransitionsWitness ==
    /\ op = "calculate_time"
    /\ LET ivs == QueryIntervals(<<"A", "B">>)
       IN  \E j, k \in 1..Len(ivs) :
               /\ j < k
               /\ IsWindowFocus(ivs[j].event)
               /\ ivs[j].event.data = "Other"
               /\ ivs[j].state.current_stream = 1
               /\ ivs[j].next.current_stream = NoStream
               /\ IsWindowFocus(ivs[k].event)
               /\ ivs[k].event.data = "Terminal"
               /\ ivs[k].state.current_stream = NoStream
               /\ ivs[k].next.current_stream = 1
    /\ DirectOf(ret, 1) > 0

----------------------------------------------------------------------------
(* Properties of messages, checked under SpecMessage *)

IsUserMessage(event) == event.type = "user_message"

\* The stream a message points at: that of its session when the session is
\* mapped, else its own
MessageTarget(event) ==
    IF /\ event.session_id # NULL
       /\ MapGet(_load_session_stream_map(events), event.session_id) # NoStream
    THEN MapGet(_load_session_stream_map(events), event.session_id)
    ELSE event.stream_id

\* C31 (user_message transition): after a user_message of the window,
\* current_stream is the stream of the message's session when the session is
\* mapped, else the stream_id of the message when that is not null (also for
\* a message without session_id), and is unchanged only when both are null;
\* the message always counts as activity.
UserMessageFocus ==
    op = "calculate_time" =>
        \A order \in SessionOrders :
            LET ivs == QueryIntervals(order)
            IN  \A k \in 1..Len(ivs) :
                    IsUserMessage(ivs[k].event) =>
                        /\ ivs[k].next.current_stream
                               = IF MessageTarget(ivs[k].event) # NoStream
                                 THEN MessageTarget(ivs[k].event)
                                 ELSE ivs[k].state.current_stream
                        /\ ~ivs[k].next.is_idle
                        /\ ivs[k].next.last_activity
                               = ParseTimestamp(ivs[k].event.timestamp)

\* C32 (frame of the user_message transition): a user_message changes only
\* current_stream, is_idle and last_activity, so previous_stream, is_afk and
\* the sessions stay, and a focus on the terminal that follows the message
\* leaves current_stream on the stream the message gave it.
UserMessageFrame ==
    op = "calculate_time" =>
        \A order \in SessionOrders :
            LET ivs == QueryIntervals(order)
            IN  /\ \A k \in 1..Len(ivs) :
                       IsUserMessage(ivs[k].event) =>
                           ivs[k].next =
                               [ivs[k].state EXCEPT
                                   !.current_stream = ivs[k].next.current_stream,
                                   !.is_idle = ivs[k].next.is_idle,
                                   !.last_activity = ivs[k].next.last_activity]
                /\ \A k \in 1..(Len(ivs) - 1) :
                       (/\ IsUserMessage(ivs[k].event)
                        /\ IsWindowFocus(ivs[k + 1].event)
                        /\ ivs[k + 1].event.data = "Terminal")
                           => ivs[k + 1].next.current_stream = ivs[k].next.current_stream

----------------------------------------------------------------------------
(* Properties of tool use, checked under SpecToolUse *)

\* Whether a session is active after the rows of its history, oldest first:
\* a start makes it active, an end inactive, and a tool use refreshes it only
\* while it is active and not timed out
RECURSIVE SessionLive(_, _, _, _)
SessionLive(rows, active, last, session_timeout_ms) ==
    IF rows = <<>> THEN [active |-> active, last |-> last]
    ELSE LET r == Head(rows)
             ts == ParseTimestamp(r.timestamp)
             live == active /\ ts - last <= session_timeout_ms
         IN  IF r.type = "agent_session" /\ r.data = "started"
             THEN SessionLive(Tail(rows), TRUE, ts, session_timeout_ms)
             ELSE IF r.type = "agent_session" /\ r.data = "ended"
             THEN SessionLive(Tail(rows), FALSE, last, session_timeout_ms)
             ELSE IF r.type = "agent_tool_use"
             THEN SessionLive(Tail(rows), live, IF live THEN ts ELSE last,
                              session_timeout_ms)
             ELSE SessionLive(Tail(rows), active, last, session_timeout_ms)

\* Whether the history before the start of the last query leaves sid active
LiveAtStart(sid) ==
    LET rows == SelectSeq(events, LAMBDA r : r.session_id = sid /\ r.timestamp < arg[1])
        sorted == StableSort(rows, TimestampKey(rows))
        final == SessionLive(sorted, FALSE, 0, arg[4])
    IN  final.active /\ ParseTimestamp(arg[1]) - final.last <= arg[4]

\* C33 (agent_tool_use): a tool use refreshes only a session that is active;
\* for a session that has ended, has timed out or never started it changes
\* nothing, so such a session is not active when the window starts and gets
\* no time until an agent_session(started); the timeouts that
\* _insert_session_timeouts writes remove a session before the replay finds
\* it stale, so the two agree on the active sessions.
ToolUseOnlyRefreshes ==
    op = "calculate_time" =>
        \A order \in SessionOrders :
            LET ivs == QueryIntervals(order)
            IN  /\ \A k \in 1..Len(ivs) :
                       ivs[k].event.type = "agent_tool_use" =>
                           /\ ivs[k].next.active_sessions = ivs[k].state.active_sessions
                           /\ ivs[k].event.session_id \notin ivs[k].state.active_sessions
                                  => ivs[k].next = ivs[k].state
                /\ \A k \in 2..Len(ivs) :
                       ivs[k].state.active_sessions = ivs[k - 1].next.active_sessions
                /\ \A sid \in ivs[1].state.active_sessions : LiveAtStart(sid)

----------------------------------------------------------------------------
(* Properties of the synthetic events, checked under SpecSessions *)

\* The rows of the window of the last query, [s, e]
WindowRows ==
    SelectSeq(events, LAMBDA r : /\ ParseTimestamp(arg[1]) <= ParseTimestamp(r.timestamp)
                                 /\ ParseTimestamp(r.timestamp) <= ParseTimestamp(arg[2]))

\* Whether an instant is the seeded last_activity or that of an activity
\* event of the window
IsActivityInstant(dt) ==
    \/ dt = SeededState.last_activity
    \/ \E i \in 1..Len(WindowRows) :
           /\ WindowRows[i].type \in ACTIVITY_EVENT_TYPES
           /\ ParseTimestamp(WindowRows[i].timestamp) = dt

\* Whether an instant is the seeded last event of a session or that of a
\* start or a tool use of the session in the window
IsSessionInstant(sid, dt) ==
    \/ /\ sid \in DOMAIN SeededState.session_last_event
       /\ dt = SeededState.session_last_event[sid]
    \/ \E i \in 1..Len(WindowRows) :
           /\ WindowRows[i].session_id = sid
           /\ WindowRows[i].type \in {"agent_session", "agent_tool_use"}
           /\ ParseTimestamp(WindowRows[i].timestamp) = dt

\* C34 (synthetic events): every synthetic event of a query has a timestamp
\* t with s <= t <= e; an _idle_start is at exactly last_activity +
\* attention_window_ms, with no activity event after last_activity and
\* strictly before it; a _session_timeout of sid is at exactly
\* session_last_event[sid] + session_timeout_ms, with no event of the session
\* in between.
SyntheticInsideWindow ==
    op = "calculate_time" =>
        \A order \in SessionOrders :
            \A k \in 1..Len(QuerySorted(order)) :
                LET event == QuerySorted(order)[k]
                    t == ParseTimestamp(event.timestamp)
                IN  /\ event.type \in {"_idle_start", "_session_timeout"} =>
                           /\ ParseTimestamp(arg[1]) <= t
                           /\ t <= ParseTimestamp(arg[2])
                    /\ event.type = "_idle_start" =>
                           /\ IsActivityInstant(t - arg[3])
                           /\ \A i \in 1..Len(WindowRows) :
                                  WindowRows[i].type \in ACTIVITY_EVENT_TYPES =>
                                      ~(/\ t - arg[3] < ParseTimestamp(WindowRows[i].timestamp)
                                        /\ ParseTimestamp(WindowRows[i].timestamp) < t)
                    /\ event.type = "_session_timeout" =>
                           /\ IsSessionInstant(event.session_id, t - arg[4])
                           /\ \A i \in 1..Len(WindowRows) :
                                  WindowRows[i].session_id = event.session_id =>
                                      ~(/\ t - arg[4] < ParseTimestamp(WindowRows[i].timestamp)
                                        /\ ParseTimestamp(WindowRows[i].timestamp) < t)

----------------------------------------------------------------------------
(* Properties of events of other types, checked under SpecInert *)

\* The rows of the store whose type is interpreted
InterpretedRows == SelectSeq(events, LAMBDA r : r.type \in INTERPRETED_EVENT_TYPES)

\* C35 (events of other types): events of a type outside the seven
\* interpreted types are inert for attribution; the result of calculate_time
\* is the result over the store without them, whatever their timestamps,
\* stream_id and session_id.
OtherTypesInert ==
    op = "calculate_time" =>
        \A order \in SessionOrders :
            ret = CalculateTime(InterpretedRows, arg[1], arg[2], arg[3], arg[4], order)

----------------------------------------------------------------------------
(* Properties of delegated time, checked under SpecSharedStream *)

\* C36 (delegated time is wall-clock time): for every stream, delegated_ms is
\* at most e - s, also when two sessions of the stream are active at the same
\* time.
DelegatedWallClock ==
    op = "calculate_time" =>
        \A stream \in DOMAIN ret : ret[stream].delegated_ms <= WindowMs

----------------------------------------------------------------------------
(* Properties of adjacent windows, checked under SpecFocus *)

\* C37 (window additivity): for any history and any s < m < e, the result of
\* calculate_time(s, e) is, for every stream, the sum of the results of
\* calculate_time(s, m) and calculate_time(m, e), for direct_ms and for
\* delegated_ms.
WindowAdditivity ==
    op = "calculate_time" =>
        \A m \in (arg[1] + 1)..(arg[2] - 1), order \in SessionOrders :
            LET first == CalculateTime(events, arg[1], m, arg[3], arg[4], order)
                second == CalculateTime(events, m, arg[2], arg[3], arg[4], order)
            IN  \A stream \in 1..Len(streams) :
                    /\ DirectOf(ret, stream)
                           = DirectOf(first, stream) + DirectOf(second, stream)
                    /\ DelegatedOf(ret, stream)
                           = DelegatedOf(first, stream) + DelegatedOf(second, stream)

----------------------------------------------------------------------------
(* Properties of imported events, checked under SpecImport *)

\* C38 (session_id of an ingested record): a record that supplies a
\* session_id is stored with it whatever its origin; the row of an imported
\* agent_session or agent_tool_use event carries the session id of its line.
ImportKeepsSessionId ==
    op = "import_events" =>
        \A i \in 1..Len(events) :
            events[i].id = arg[1].id => events[i].session_id = arg[1].session_id

----------------------------------------------------------------------------
(* Properties of the order of the rows, checked under SpecFocus *)

\* The stores that hold the rows of this store: the same rows in timestamp
\* order, rows of one timestamp in any order of insertion
SameRowsStores ==
    {[i \in 1..Len(events) |-> events[p[i]]] : p \in
        {q \in OrdersOf(1..Len(events)) :
            \A i, j \in 1..Len(events) :
                i < j => events[q[i]].timestamp <= events[q[j]].timestamp}}

\* C39 (independence of the insertion order): the result of calculate_time
\* depends only on the set of stored events; two stores that hold the same
\* events give the same result, in whatever order the events of one
\* timestamp were inserted.
InsertionOrderIndependence ==
    op = "calculate_time" =>
        \A evs \in SameRowsStores, order \in SessionOrders :
            ret = CalculateTime(evs, arg[1], arg[2], arg[3], arg[4], order)

----------------------------------------------------------------------------
(* Properties of the return to the terminal, checked under SpecRestore *)

IsTerminalFocus(event) == IsWindowFocus(event) /\ event.data = "Terminal"

IsOtherFocus(event) == IsWindowFocus(event) /\ event.data # "Terminal"

\* C40 (focus restoration): when current_stream is X, not null, and one or
\* more non-terminal window_focus events follow with no tmux_pane_focus,
\* user_message or terminal focus in between, the next window_focus(Terminal)
\* restores current_stream to X, however many non-terminal events there were.
FocusRestoration ==
    op = "calculate_time" =>
        \A order \in SessionOrders :
            LET ivs == QueryIntervals(order)
            IN  \A j, k \in 1..Len(ivs) :
                    (/\ j < k
                     /\ IsOtherFocus(ivs[j].event)
                     /\ ivs[j].state.current_stream # NoStream
                     /\ \A i \in j..(k - 1) :
                            /\ ivs[i].event.type \notin {"tmux_pane_focus", "user_message"}
                            /\ ~IsTerminalFocus(ivs[i].event)
                     /\ IsTerminalFocus(ivs[k].event))
                        => ivs[k].next.current_stream = ivs[j].state.current_stream

====
